---- MODULE Spec2Model ----
(***************************************************************************)
(* Model of the provider/client abstraction core of llmabstraction:        *)
(*   - LLMInteractionHistory and LLMClient      (src/core/llm_client.py)   *)
(*   - LLMProviderFactory      (src/llmcore/llm_provider_factory.py)       *)
(*   - LLMClientFactory             (src/core/llm_client_factory.py)       *)
(*   - provider catalogs and create_facade (src/llmproviders, providers)   *)
(*                                                                         *)
(* Conventions.  Python's Optional[T] is a sequence of length at most one: *)
(* None is <<>>, a value v is <<v>>.  Texts (prompts, contents, messages,  *)
(* model ids) are strings.  Provider names are sequences of ASCII codes,    *)
(* because the registry applies str.lower() / str.upper() to them.         *)
(* Response.timestamp is a wall-clock reading that no operation inspects;  *)
(* it is left out of the records.                                          *)
(***************************************************************************)
EXTENDS Integers, Sequences, FiniteSets, TLC

None == <<>>
Some(v) == <<v>>
IsNone(o) == o = <<>>
Val(o) == o[1]

(***************************************************************************)
(* Bounds of the model.                                                    *)
(***************************************************************************)
MaxCap == 2        \* largest history capacity a Client is built with
MaxInserts == 4    \* add() calls followed on one History between two clear()
StreamCap == 1     \* largest history capacity of a Client that also streams
MaxChunks == 2     \* fragments one facade stream produces
MaxSets == 2       \* set_default_params calls on one Client

(***************************************************************************)
(* Input alphabets.                                                        *)
(***************************************************************************)
Prompts == {"p1", "p2"}
Contents == {"r1"}
\* the fragments a Facade stream produces, in the order it produces them
Fragments == <<"a", "b", "c", "d">>
\* str(e) of the exception a facade raises: an exception built without
\* arguments (a bare `assert`, `raise TimeoutError()`) has the empty text
ExcMsgs == {"", "boom"}
\* the message a facade reports in-band (its own `error=str(e)`)
ErrMsgs == {"api down"}
\* **kwargs given to set_default_params, and to one generation call
SetKwargs == { [temperature |-> 1], [temperature |-> 3, max_tokens |-> 1] }
Overrides == { <<>>, [temperature |-> 2, top_p |-> 1] }
\* message lists handed to Client.chat
Msg(role, content) == [role |-> role, content |-> content]
MessageLists ==
    { <<>>,
      << Msg("user", "p1") >>,
      << Msg("user", "") >>,
      << Msg("assistant", "r1") >>,
      << Msg("system", "s"), Msg("user", "p2") >>,
      << Msg("user", "p1"), Msg("assistant", "r1") >>,
      << Msg("user", "p1"), Msg("user", "p2") >>,
      << Msg("user", "p2"), Msg("user", "") >>,
      << Msg("user", "p1"), Msg("assistant", "r1"), Msg("user", "p2") >>,
      << Msg("user", "p2"), Msg("assistant", "r1"), Msg("system", "s") >> }
NShots == {-1, 0, 1, 2}

\* the conversations and shot counts used next to a running stream
StreamMessageLists ==
    { <<>>,
      << Msg("user", "p1") >>,
      << Msg("user", "p1"), Msg("assistant", "r1"), Msg("user", "p2") >> }
StreamNShots == {1}

\* the provider name "mock" (MockProvider default, llm_client_factory fallback)
MockName == <<109, 111, 99, 107>>

(***************************************************************************)
(* LLMResponse (src/llmcore/llm_facade.py)                                 *)
(***************************************************************************)
LLMResponse(content, model, provider, usage, error) ==
    [content |-> content, model |-> model, provider |-> provider,
     usage |-> usage, error |-> error]

\* what a facade call does: return a Response, or raise an exception
FacadeOutcomes ==
    { [raised |-> FALSE, content |-> c, error |-> None, msg |-> ""] : c \in Contents }
    \cup { [raised |-> FALSE, content |-> "", error |-> Some(m), msg |-> ""] : m \in ErrMsgs }
    \cup { [raised |-> TRUE, content |-> "", error |-> None, msg |-> m] : m \in ExcMsgs }

FacadeResponse(f, o) ==
    LLMResponse(o.content, f.model_name, f.provider_name, Some("usage"), o.error)

(***************************************************************************)
(* LLMInteractionHistory                                                   *)
(***************************************************************************)
\* deque.append on a deque(maxlen=maxlen): append on the right, then drop
\* from the left while the deque is longer than maxlen
DequeAppend_NoTrim(d, maxlen, x) == Append(d, x)
DequeAppend_DropNewest(d, maxlen, x) ==
    LET a == Append(d, x)
    IN  IF Len(a) > maxlen THEN SubSeq(a, 1, maxlen) ELSE a
DequeAppend(d, maxlen, x) ==
    LET a == Append(d, x)
    IN  IF Len(a) > maxlen THEN Tail(a) ELSE a

Interaction(prompt, response) ==
    [prompt |-> prompt, response |-> response.content, model |-> response.model,
     provider |-> response.provider, usage |-> response.usage]

add_interaction(h, maxlen, prompt, response) ==
    DequeAppend(h, maxlen, Interaction(prompt, response))

\* Python's lst[start:] for an integer start (negative counts from the end)
PySliceFrom(lst, start) ==
    LET n == Len(lst)
        s == IF start < 0 THEN (IF n + start < 0 THEN 0 ELSE n + start)
             ELSE (IF start > n THEN n ELSE start)
    IN  SubSeq(lst, s + 1, n)

\* get_history(n): n is Optional[int]; list(self._history)[-n:]
get_history(h, n) == IF IsNone(n) THEN h ELSE PySliceFrom(h, 0 - Val(n))

RECURSIVE AsMessages(_)
AsMessages(sel) ==
    IF sel = <<>> THEN <<>>
    ELSE << [role |-> "user", content |-> Head(sel).prompt],
            [role |-> "assistant", content |-> Head(sel).response] >>
         \o AsMessages(Tail(sel))

get_as_messages_UserOnly(h, n) ==
    [i \in 1..Len(get_history(h, n)) |->
        [role |-> "user", content |-> get_history(h, n)[i].prompt]]
get_as_messages(h, n) == AsMessages(get_history(h, n))

size(h) == Len(h)
is_empty(h) == Len(h) = 0

(***************************************************************************)
(* State                                                                   *)
(***************************************************************************)
VARIABLES
    facade,        \* LLMClient.facade: the (model_name, provider_name) it is bound to
    max_history,   \* LLMInteractionHistory.max_history
    history,       \* LLMInteractionHistory._history, oldest first
    inserted,      \* history variable: every Interaction handed to add_interaction
                   \* since construction or the last clear(), in call order
    stream,        \* the generator object made by LLMClient.generate_stream
    last,          \* the Client operation just executed and what it returned
    default_params,  \* LLMClient._default_params
    set_log,       \* history variable: the kwargs of every set_default_params
                   \* call since construction, in call order
    options        \* history variable: the **kwargs of the Client call that
                   \* made the latest Facade call, and the options (`params`)
                   \* that Facade call was given; None before the first

paramVars == <<default_params, set_log, options>>
clientVars == <<facade, max_history, history, inserted, stream, last, paramVars>>

\* state of the two singletons
VARIABLES
    provider_registry,    \* LLMProviderFactory._provider_registry
    provider_instances,   \* LLMProviderFactory._provider_instances (the cache)
    made,                 \* number of Provider objects constructed so far
    config,               \* LLMClientFactory._config
    default_provider,     \* LLMClientFactory._default_provider
    default_model,        \* LLMClientFactory._default_model
    last_got,             \* history variable: per key, the id of the instance the
                          \* latest get_provider(use_cache=True) returned since
                          \* the key was last cleared
    result,               \* the registry / factory call just executed
    provider_obj,         \* a Provider constructed directly (None before)
    facade_call,          \* the call just made on provider_obj and its result
    fstream,              \* a stream obtained from a Facade, as its consumer sees it
    threads               \* per thread, where its get_provider call stands:
                          \* its position, arguments, locals and return value

providerVars == <<provider_obj, facade_call, fstream>>
threadVars == <<threads>>
factoryVars == <<provider_registry, provider_instances, made, config,
                 default_provider, default_model, last_got, result, providerVars,
                 threadVars>>

\* object identity of the two factories
VARIABLES
    registry_instance,    \* LLMProviderFactory._instance
    factory_instance,     \* LLMClientFactory._instance
    objects,              \* every factory object allocated, by identity
    handles,              \* the references the program obtained, in order
    last_set              \* history variable: what was last stored through a
                          \* reference to a client factory, and how many
                          \* references existed then

singletonVars == <<registry_instance, factory_instance, objects, handles, last_set>>

vars == <<clientVars, factoryVars, singletonVars>>

(***************************************************************************)
(* LLMClient                                                               *)
(***************************************************************************)
EmptyDict == <<>>

\* {**a, **b}, and a.update(b): the keys of both, b's value where both have one
Merge_DefaultsWin(a, b) ==
    [k \in DOMAIN a \cup DOMAIN b |-> IF k \in DOMAIN a THEN a[k] ELSE b[k]]
Merge(a, b) ==
    [k \in DOMAIN a \cup DOMAIN b |-> IF k \in DOMAIN b THEN b[k] ELSE a[k]]

UserMessage(prompt) == [role |-> "user", content |-> prompt]

\* str(e) for the exception e the except-branches catch
ExcText(msg) == msg

\* the except-branch of generate / chat: LLMResponse(content="", error=str(e))
\* answering a failure under the fallback pair instead of the Facade's own ids
ErrorResponse_AsFallback(f, msg) ==
    LLMResponse("", "mock-model", MockName, None, Some(ExcText(msg)))

ErrorResponse(f, msg) ==
    LLMResponse("", f.model_name, f.provider_name, None, Some(ExcText(msg)))

\* which Facade method generate / generate_stream invoke, and with what
SourceSelection_AlwaysGenerate(h, prompt, use_history) ==
    [method |-> "generate", prompt |-> prompt, messages |-> <<>>]
SourceSelection(h, prompt, use_history) ==
    IF use_history /\ ~is_empty(h)
    THEN [method |-> "chat", prompt |-> "",
          messages |-> Append(get_as_messages(h, None), UserMessage(prompt))]
    ELSE [method |-> "generate", prompt |-> prompt, messages |-> <<>>]

\* `save_to_history and response.error is None`
ShouldSave_Always(save_to_history, response) == IsNone(response.error)
ShouldSave(save_to_history, response) == save_to_history /\ IsNone(response.error)

\* LLMClient.generate, given the outcome o of its one Facade call
Generate(h, maxlen, f, prompt, save_to_history, o) ==
    IF o.raised
    THEN [ret |-> ErrorResponse(f, o.msg), history |-> h, added |-> FALSE]
    ELSE LET response == FacadeResponse(f, o)
         IN  IF ShouldSave(save_to_history, response)
             THEN [ret |-> response,
                   history |-> add_interaction(h, maxlen, prompt, response),
                   added |-> TRUE]
             ELSE [ret |-> response, history |-> h, added |-> FALSE]

\* next((m['content'] for m in reversed(messages) if m.get('role') == 'user'), '')
\* taking the content of the final message, whatever its role
LastUserContent_FinalMessage(messages) ==
    IF messages = <<>> THEN "" ELSE messages[Len(messages)].content

RECURSIVE LastUserContent(_)
LastUserContent(messages) ==
    IF messages = <<>> THEN ""
    ELSE LET m == messages[Len(messages)]
         IN  IF m.role = "user" THEN m.content
             ELSE LastUserContent(SubSeq(messages, 1, Len(messages) - 1))

\* LLMClient.chat, given the outcome o of its Facade call
Chat(h, maxlen, f, messages, save_to_history, o) ==
    IF o.raised
    THEN [ret |-> ErrorResponse(f, o.msg), history |-> h, added |-> FALSE]
    ELSE LET response == FacadeResponse(f, o)
             user_msg == LastUserContent(messages)
         IN  IF ShouldSave(save_to_history, response) /\ messages # <<>>
                /\ user_msg # ""
             THEN [ret |-> response,
                   history |-> add_interaction(h, maxlen, user_msg, response),
                   added |-> TRUE]
             ELSE [ret |-> response, history |-> h, added |-> FALSE]

\* the message list multi_shot_generate hands to chat
MultiShotMessages_AllHistory(h, prompt, n_shots) ==
    Append(get_as_messages(h, None), UserMessage(prompt))
MultiShotMessages(h, prompt, n_shots) ==
    Append(get_as_messages(h, Some(n_shots)), UserMessage(prompt))

\* the Facade call self.facade.chat(messages, **params)
ChatCall(messages) == [method |-> "chat", prompt |-> "", messages |-> messages]

\* a Client operation that made the one Facade call `call`, got outcome o
\* from it and ended as r
Returned(op, n, prompt, use_history, save_to_history, kw, call, o, r) ==
    /\ history' = r.history
    /\ last' = [n |-> n, got |-> <<>>, prompt |-> prompt,
                use_history |-> use_history, save |-> save_to_history,
                calls |-> <<call>>, op |-> op, facade_raised |-> o.raised,
                facade_error |-> ~IsNone(o.error), ret |-> Some(r.ret),
                yielded |-> None, added |-> r.added,
                evicted |-> r.added /\ Len(history) >= max_history]
    /\ options' = Some([kwargs |-> kw, params |-> Merge(default_params, kw)])
    /\ UNCHANGED <<facade, max_history, stream, inserted, default_params, set_log,
                   factoryVars, singletonVars>>

ClientGenerateWith(prompts, kws) ==
    \E prompt \in prompts, use_history \in BOOLEAN, save_to_history \in BOOLEAN,
       kw \in kws, o \in FacadeOutcomes :
        Returned("generate", None, prompt, use_history, save_to_history, kw,
                 SourceSelection(history, prompt, use_history), o,
                 Generate(history, max_history, facade, prompt, save_to_history, o))

ClientChatWith(lists, kws) ==
    \E messages \in lists, save_to_history \in BOOLEAN, kw \in kws,
       o \in FacadeOutcomes :
        Returned("chat", None, "", FALSE, save_to_history, kw, ChatCall(messages), o,
                 Chat(history, max_history, facade, messages, save_to_history, o))

\* multi_shot_generate forwards **kwargs (save_to_history among them) to chat
ClientMultiShotWith(prompts, shots, kws) ==
    \E prompt \in prompts, n_shots \in shots, save_to_history \in BOOLEAN,
       kw \in kws, o \in FacadeOutcomes :
        Returned("multi_shot_generate", Some(n_shots), prompt, FALSE, save_to_history, kw,
                 ChatCall(MultiShotMessages(history, prompt, n_shots)), o,
                 Chat(history, max_history, facade,
                      MultiShotMessages(history, prompt, n_shots), save_to_history, o))

Quiet(op, yielded) ==
    last' = [n |-> None, got |-> <<>>, prompt |-> "", use_history |-> FALSE,
                calls |-> <<>>, save |-> FALSE, op |-> op, facade_raised |-> FALSE, facade_error |-> FALSE,
             ret |-> None, yielded |-> yielded, added |-> FALSE, evicted |-> FALSE]

\* the Client operations called without overrides
ClientGenerate == ClientGenerateWith(Prompts, {EmptyDict})
ClientChat == ClientChatWith(MessageLists, {EmptyDict})
ClientMultiShot == ClientMultiShotWith(Prompts \cup {""}, NShots, {EmptyDict})
\* the operations a streaming Client interleaves with its stream; the stream
\* is for prompt p1, the interleaved generate for p2
StreamClientGenerate == ClientGenerateWith({"p2"}, {EmptyDict})
StreamClientChat == ClientChatWith(StreamMessageLists, {EmptyDict})
StreamClientMultiShot == ClientMultiShotWith({"p2"}, StreamNShots, {EmptyDict})
\* ... and with overrides
ParamsGenerate == ClientGenerateWith({"p1"}, Overrides)
ParamsChat == ClientChatWith({ << Msg("user", "p1") >> }, Overrides)
ParamsMultiShot == ClientMultiShotWith({"p1"}, {1}, Overrides)

\* LLMClient.set_default_params(**kwargs)
SetDefaultParams ==
    \E kw \in SetKwargs :
        /\ Len(set_log) < MaxSets
        /\ default_params' = Merge(default_params, kw)
        /\ set_log' = Append(set_log, kw)
        /\ Quiet("set_default_params", None)
        /\ UNCHANGED <<facade, max_history, history, inserted, stream, options,
                       factoryVars, singletonVars>>

\* LLMClient.clear_history -> LLMInteractionHistory.clear
ClientClearHistory ==
    /\ history' = <<>>
    /\ Quiet("clear_history", None)
    /\ UNCHANGED <<facade, max_history, stream, inserted, paramVars, factoryVars, singletonVars>>

(***************************************************************************)
(* LLMClient.generate_stream: a generator.  Calling it runs no code; each  *)
(* pull runs the body up to the next yield.  One generator is followed at  *)
(* a time.  Locals that the rest of the body never reads are dropped:      *)
(* use_history after the first pull, everything once the except-branch has *)
(* yielded, and the whole frame of a finished or closed generator.         *)
(***************************************************************************)
IdleStream ==
    [state |-> "none", prompt |-> "", use_history |-> FALSE, save |-> FALSE,
     kwargs |-> EmptyDict, full_response |-> <<>>,
     \* history fields: what the Facade's stream produced and what the
     \* consumer of the Client's generator received, in order
     produced |-> <<>>, forwarded |-> <<>>]

RECURSIVE Join(_)
Join(parts) == IF parts = <<>> THEN "" ELSE Head(parts) \o Join(Tail(parts))

\* f"Error: {str(e)}"
ErrorMarker(msg) == "Error: " \o ExcText(msg)
\* the fragment a Facade variant yields in-band when its vendor call fails
InBandErrors == { "Error: " \o m : m \in ErrMsgs }

\* what pulling the Facade's stream does after it produced the fragments
\* `parts`: the next fragment (text, or an in-band error fragment, after
\* which every Facade variant's stream ends), exhaustion, or an exception.
\* An exception before the first fragment is also what a failing
\* chat_stream / generate_stream call itself gives: both are in the same try.
StreamOutcomes(parts) ==
    IF parts # <<>> /\ parts[Len(parts)] \in InBandErrors
    THEN { [kind |-> "end", text |-> ""] }
    ELSE (IF Len(parts) < MaxChunks
          THEN { [kind |-> "chunk", text |-> Fragments[Len(parts) + 1]] }
               \cup { [kind |-> "chunk", text |-> e] : e \in InBandErrors }
          ELSE {})
         \cup { [kind |-> "end", text |-> ""] }
         \cup { [kind |-> "raise", text |-> m] : m \in ExcMsgs }

StreamResponse(f, parts) ==
    LLMResponse(Join(parts), f.model_name, f.provider_name, None, None)

\* the Facade call of generate_stream: chat_stream or generate_stream
\* deciding for the plain stream without looking at the History
StreamSelection_Plain(h, prompt, use_history) ==
    [method |-> "generate_stream", prompt |-> prompt, messages |-> <<>>]

StreamSelection(h, prompt, use_history) ==
    LET c == SourceSelection(h, prompt, use_history)
    IN  [c EXCEPT !.method = IF c.method = "chat" THEN "chat_stream"
                             ELSE "generate_stream"]

\* `if save_to_history:` after the loop
StreamShouldSave_NoErrorFragment(save_to_history, parts) ==
    save_to_history /\ \A k \in 1..Len(parts) : parts[k] \notin InBandErrors
StreamShouldSave(save_to_history, parts) == save_to_history

\* does `except Exception` catch an exception of class exc?  GeneratorExit
\* derives from BaseException only.
\* saving in a `finally:`, whichever way the loop over the Facade's stream ended
StreamSavePoint_Finally(kind) == kind \in {"end", "raise"}
\* the save follows the loop inside the `try:`; it is reached when the
\* Facade's stream runs out and skipped when the loop raises
StreamSavePoint(kind) == kind = "end"

Caught_Nothing(exc) == FALSE
Caught_BaseException(exc) == TRUE
Caught(exc) == exc = "Exception"

StreamCreateWith(prompts, kws) ==
    \E prompt \in prompts, use_history \in BOOLEAN, save_to_history \in BOOLEAN,
       kw \in kws :
        /\ stream.state \in {"none", "done", "closed", "raised"}
        /\ stream' = [IdleStream EXCEPT !.state = "created", !.prompt = prompt,
                                        !.use_history = use_history,
                                        !.save = save_to_history,
                                        !.kwargs = kw]
        /\ Quiet("generate_stream", None)
        /\ UNCHANGED <<facade, max_history, history, inserted, paramVars, factoryVars, singletonVars>>

StreamCreate == StreamCreateWith({"p1"}, {EmptyDict})
ParamsStreamCreate == StreamCreateWith({"p1"}, Overrides)

\* one pull that runs the body: on the first pull the options and the source
\* selection, then the next step of `for chunk in stream`
StreamPull ==
    \E s \in StreamOutcomes(stream.full_response) :
        LET first == stream.state = "created"
            saving == StreamSavePoint(s.kind)
                      /\ StreamShouldSave(stream.save, stream.full_response)
            response == StreamResponse(facade, stream.full_response)
            caught == s.kind = "raise" /\ Caught("Exception")
        IN  /\ stream.state \in {"created", "running"}
            /\ stream' =
                 CASE s.kind = "chunk" ->
                        [stream EXCEPT !.state = "running", !.use_history = FALSE,
                                       !.kwargs = EmptyDict,
                                       !.full_response = Append(@, s.text),
                                       !.produced = Append(@, s.text),
                                       !.forwarded = Append(@, s.text)]
                   [] s.kind = "end" -> [IdleStream EXCEPT !.state = "done"]
                   [] s.kind = "raise" ->
                        [IdleStream EXCEPT
                            !.state = IF caught THEN "errored" ELSE "raised",
                            !.produced = stream.produced,
                            !.forwarded = IF caught
                                          THEN Append(stream.forwarded,
                                                      ErrorMarker(s.text))
                                          ELSE stream.forwarded]
            /\ history' = IF saving
                          THEN add_interaction(history, max_history, stream.prompt, response)
                          ELSE history
            /\ last' = [n |-> None, got |-> <<>>, prompt |-> "", use_history |-> FALSE,
                save |-> s.kind = "raise" /\ stream.save,
                        op |-> "stream_pull", facade_raised |-> s.kind = "raise",
                        calls |-> IF first
                                  THEN << StreamSelection(history, stream.prompt,
                                                          stream.use_history) >>
                                  ELSE <<>>,
                        facade_error |-> FALSE, ret |-> None,
                        yielded |-> CASE s.kind = "chunk" -> Some(s.text)
                                      [] s.kind = "end" -> None
                                      [] s.kind = "raise" ->
                                            IF caught THEN Some(ErrorMarker(s.text))
                                            ELSE None,
                        added |-> saving,
                        evicted |-> saving /\ Len(history) >= max_history]
            /\ options' = IF first
                          THEN Some([kwargs |-> stream.kwargs,
                                     params |-> Merge(default_params, stream.kwargs)])
                          ELSE options
            /\ UNCHANGED <<facade, max_history, inserted, default_params, set_log,
                           factoryVars, singletonVars>>

\* the pull after the error fragment: the except-branch falls off the end
StreamPullAfterError ==
    /\ stream.state = "errored"
    /\ stream' = [IdleStream EXCEPT !.state = "done"]
    /\ Quiet("stream_pull", None)
    /\ UNCHANGED <<facade, max_history, history, inserted, paramVars, factoryVars, singletonVars>>

\* a pull of a generator that has finished or was closed: StopIteration, no
\* code of the body runs
StreamPullFinished ==
    /\ stream.state \in {"done", "closed", "raised"}
    /\ Quiet("stream_pull_finished", None)
    /\ UNCHANGED <<facade, max_history, history, inserted, stream, paramVars, factoryVars, singletonVars>>

\* the consumer closes the generator, or drops it and it is collected:
\* GeneratorExit is thrown at the yield the body is suspended at, which is
\* inside the try only while the loop runs.  Not being an Exception it is not
\* caught, so neither the except-branch nor the save runs.
StreamAbandon ==
    /\ stream.state \in {"created", "running", "errored"}
    /\ stream' = [IdleStream EXCEPT !.state = "closed", !.save = stream.save,
                                    !.forwarded = stream.forwarded]
    /\ Quiet("stream_close",
             IF stream.state = "running" /\ Caught("GeneratorExit")
             THEN Some(ErrorMarker("")) ELSE None)
    /\ UNCHANGED <<facade, max_history, history, inserted, paramVars, factoryVars, singletonVars>>

(***************************************************************************)
(* LLMInteractionHistory driven directly: add / clear on one History.      *)
(***************************************************************************)
HistoryItems ==
    { [prompt |-> p, response |-> LLMResponse(c, "mock-model", MockName, None, None)] :
        p \in Prompts, c \in {"r1", "r2"} }

HistoryAdd ==
    \E it \in HistoryItems :
        /\ Len(inserted) < MaxInserts
        /\ history' = add_interaction(history, max_history, it.prompt, it.response)
        /\ inserted' = Append(inserted, Interaction(it.prompt, it.response))
        /\ last' = [n |-> None, got |-> <<>>, prompt |-> "", use_history |-> FALSE,
                calls |-> <<>>, save |-> FALSE, op |-> "add_interaction", facade_raised |-> FALSE,
                    facade_error |-> FALSE, ret |-> None, yielded |-> None,
                    added |-> TRUE, evicted |-> Len(history) >= max_history]
        /\ UNCHANGED <<facade, max_history, stream, paramVars, factoryVars, singletonVars>>

HistoryClear ==
    /\ history' = <<>>
    /\ inserted' = <<>>
    /\ Quiet("clear", None)
    /\ UNCHANGED <<facade, max_history, stream, paramVars, factoryVars, singletonVars>>

\* arguments of get_history / get_as_messages: omitted, or an integer >= 0
GetArgs == {None} \cup { Some(k) : k \in 0..(MaxCap + 1) }

\* history.get_history(n)
HistoryGet ==
    \E n \in GetArgs :
        /\ last' = [prompt |-> "", use_history |-> FALSE, calls |-> <<>>, save |-> FALSE, n |-> n, got |-> get_history(history, n), op |-> "get_history",
                    facade_raised |-> FALSE, facade_error |-> FALSE, ret |-> None,
                    yielded |-> None, added |-> FALSE, evicted |-> FALSE]
        /\ UNCHANGED <<facade, max_history, history, inserted, stream, paramVars, factoryVars,
                       singletonVars>>

\* history.get_as_messages(n)
HistoryGetAsMessages ==
    \E n \in GetArgs :
        /\ last' = [prompt |-> "", use_history |-> FALSE, calls |-> <<>>, save |-> FALSE, n |-> n, got |-> get_as_messages(history, n),
                    op |-> "get_as_messages",
                    facade_raised |-> FALSE, facade_error |-> FALSE, ret |-> None,
                    yielded |-> None, added |-> FALSE, evicted |-> FALSE]
        /\ UNCHANGED <<facade, max_history, history, inserted, stream, paramVars, factoryVars,
                       singletonVars>>

ClientInitWith(cap) ==
    /\ facade = [model_name |-> "mock-model", provider_name |-> MockName]
    /\ max_history \in 0..cap
    /\ history = <<>>
    /\ inserted = <<>>
    /\ stream = IdleStream
    /\ last = [n |-> None, got |-> <<>>, prompt |-> "", use_history |-> FALSE,
                calls |-> <<>>, save |-> FALSE, op |-> "init", facade_raised |-> FALSE, facade_error |-> FALSE,
               ret |-> None, yielded |-> None, added |-> FALSE, evicted |-> FALSE]
    /\ default_params = EmptyDict
    /\ set_log = <<>>
    /\ options = None

(***************************************************************************)
(* Provider names, classes and catalogs                                    *)
(***************************************************************************)
MOCKName == <<77, 79, 67, 75>>          \* "MOCK"
GrokName == <<103, 114, 111, 107>>      \* "grok"
NopeName == <<110, 111, 112, 101>>      \* "nope", never registered
EmptyName == <<>>                       \* ""
ProviderNames == {MockName, MOCKName, GrokName, NopeName}

\* str.lower() / str.upper() on ASCII text
LowerChar(c) == IF c >= 65 /\ c <= 90 THEN c + 32 ELSE c
UpperChar(c) == IF c >= 97 /\ c <= 122 THEN c - 32 ELSE c
Lower_Identity(name) == name
Lower(name) == [i \in 1..Len(name) |-> LowerChar(name[i])]
Upper(name) == [i \in 1..Len(name) |-> UpperChar(name[i])]

ProviderClasses == {"MockProvider", "GrokProvider"}

\* list(self._available_models.keys()) of each provider class
MockCatalog == <<"mock-model", "mock-model-large", "mock-model-fast">>
GrokCatalog == <<"grok-beta", "grok-vision-beta">>
BedrockCatalog ==
    << "meta.llama3-3-70b-instruct-v1:0", "meta.llama3-1-405b-instruct-v1:0",
       "meta.llama3-1-70b-instruct-v1:0", "meta.llama3-1-8b-instruct-v1:0",
       "amazon.titan-text-premier-v1:0", "amazon.titan-text-express-v1",
       "anthropic.claude-3-5-sonnet-20241022-v2:0",
       "anthropic.claude-3-opus-20240229-v1:0",
       "mistral.mistral-large-2407-v1:0",
       "mistral.mixtral-8x7b-instruct-v0:1" >>
AnthropicCatalog ==
    << "claude-3-5-sonnet-20241022", "claude-3-opus-20240229",
       "claude-3-sonnet-20240229", "claude-3-haiku-20240307" >>
TogetherCatalog ==
    << "meta-llama/Meta-Llama-3.1-405B-Instruct-Turbo",
       "meta-llama/Meta-Llama-3.1-70B-Instruct-Turbo",
       "meta-llama/Meta-Llama-3.1-8B-Instruct-Turbo",
       "mistralai/Mixtral-8x7B-Instruct-v0.1",
       "mistralai/Mistral-7B-Instruct-v0.2",
       "Qwen/Qwen2.5-72B-Instruct-Turbo", "deepseek-ai/deepseek-llm-67b-chat" >>
GoogleCatalog ==
    << "gemini-1.5-pro-latest", "gemini-1.5-flash-latest", "gemini-1.0-pro",
       "gemini-pro", "gemini-1.5-flash-8b" >>
HuggingFaceCatalog ==
    << "meta-llama/Meta-Llama-3.1-70B-Instruct",
       "meta-llama/Meta-Llama-3.1-8B-Instruct",
       "mistralai/Mistral-7B-Instruct-v0.3",
       "mistralai/Mixtral-8x7B-Instruct-v0.1",
       "microsoft/Phi-3-mini-4k-instruct", "Qwen/Qwen2.5-72B-Instruct",
       "google/gemma-2-9b-it", "tiiuae/falcon-180B-chat" >>
get_available_models(provider) ==
    CASE provider.cls = "MockProvider" -> MockCatalog
      [] provider.cls = "GrokProvider" -> GrokCatalog
      [] provider.cls = "BedrockProvider" -> BedrockCatalog
      [] provider.cls = "AnthropicProvider" -> AnthropicCatalog
      [] provider.cls = "TogetherProvider" -> TogetherCatalog
      [] provider.cls = "GoogleProvider" -> GoogleCatalog
      [] provider.cls = "HuggingFaceProvider" -> HuggingFaceCatalog

\* the max_tokens entry of each catalog's model metadata, in catalog order
CatalogMaxTokens(cls) ==
    CASE cls = "MockProvider" ->
           << 4096, 8192, 2048 >>
      [] cls = "GrokProvider" ->
           << 131072, 8192 >>
      [] cls = "BedrockProvider" ->
           << 8192, 32768, 32768, 32768, 32000, 8192, 200000, 200000, 32000, 32000 >>
      [] cls = "AnthropicProvider" ->
           << 200000, 200000, 200000, 200000 >>
      [] cls = "TogetherProvider" ->
           << 16384, 32768, 8192, 32768, 32768, 32768, 4096 >>
      [] cls = "GoogleProvider" ->
           << 8192, 8192, 8192, 8192, 8192 >>
      [] cls = "HuggingFaceProvider" ->
           << 8192, 8192, 32768, 32768, 4096, 32768, 8192, 2048 >>

\* self._available_models[model_name]; of the metadata only max_tokens is
\* kept, the other keys (name, version, description, costs) are never read
ModelInfo(provider, model_name) ==
    LET ids == get_available_models(provider)
        i == CHOOSE k \in 1..Len(ids) : ids[k] = model_name
    IN  [max_tokens |-> CatalogMaxTokens(provider.cls)[i]]

\* every Provider class, and the provider_name its constructor defaults to
BedrockName == << 98, 101, 100, 114, 111, 99, 107 >>    \* "bedrock"
AnthropicName == << 97, 110, 116, 104, 114, 111, 112, 105, 99 >>    \* "anthropic"
TogetherName == << 116, 111, 103, 101, 116, 104, 101, 114 >>    \* "together"
GoogleName == << 103, 111, 111, 103, 108, 101 >>    \* "google"
HuggingFaceName == << 104, 117, 103, 103, 105, 110, 103, 102, 97, 99, 101 >>    \* "huggingface"
ProviderVariants ==
    {"MockProvider", "GrokProvider", "BedrockProvider", "AnthropicProvider",
     "TogetherProvider", "GoogleProvider", "HuggingFaceProvider"}
DefaultProviderName(cls) ==
    CASE cls = "MockProvider" -> MockName
      [] cls = "GrokProvider" -> GrokName
      [] cls = "BedrockProvider" -> BedrockName
      [] cls = "AnthropicProvider" -> AnthropicName
      [] cls = "TogetherProvider" -> TogetherName
      [] cls = "GoogleProvider" -> GoogleName
      [] cls = "HuggingFaceProvider" -> HuggingFaceName
\* the `config` a Provider is constructed with, the model ids asked of it and
\* the **kwargs given to create_facade
ProviderConfigs == { None, Some([region |-> "us"]), Some([temperature |-> 7]) }
AskedModels ==
    { "mock-model", "mock-model-fast", "grok-beta", "amazon.titan-text-express-v1",
      "claude-3-opus-20240229", "mistralai/Mixtral-8x7B-Instruct-v0.1",
      "gemini-pro", "google/gemma-2-9b-it", "does-not-exist", "" }
FacadeKwargs == { <<>>, [temperature |-> 2], [max_tokens |-> 5, response_delay |-> 3] }

Elems(seq) == { seq[i] : i \in 1..Len(seq) }

\* LLMProvider.supports_model
supports_model(provider, model_name) ==
    model_name \in Elems(get_available_models(provider))

ModelNames == {"mock-model", "grok-beta", "does-not-exist"}

\* os.environ: only MOCK_API_KEY is set
EnvKeySuffix == <<95, 65, 80, 73, 95, 75, 69, 89>>     \* "_API_KEY"
Environ == [k \in {Upper(MockName) \o EnvKeySuffix} |-> "env-mock"]
EnvGet(k) == IF k \in DOMAIN Environ THEN Some(Environ[k]) ELSE None

ApiKeys == {None, Some("k1")}

(***************************************************************************)
(* Python dicts.  The registry keeps insertion order (its keys are listed  *)
(* in messages), so it is a sequence of (key, class) entries.              *)
(***************************************************************************)
DictGet(d, k, default) == IF k \in DOMAIN d THEN d[k] ELSE default
DictPut(d, k, v) == [x \in DOMAIN d \cup {k} |-> IF x = k THEN v ELSE d[x]]
DictPop(d, k) == [x \in DOMAIN d \ {k} |-> d[x]]

RegKeys_None(reg) == <<>>
RegKeys(reg) == [i \in 1..Len(reg) |-> reg[i].key]
RegHas(reg, k) == \E i \in 1..Len(reg) : reg[i].key = k
RegGet(reg, k) == reg[CHOOSE i \in 1..Len(reg) : reg[i].key = k].cls
RegPut(reg, k, c) ==
    IF RegHas(reg, k)
    THEN [i \in 1..Len(reg) |-> IF reg[i].key = k THEN [key |-> k, cls |-> c] ELSE reg[i]]
    ELSE Append(reg, [key |-> k, cls |-> c])

(***************************************************************************)
(* Failures raised by the registry and the client factory                  *)
(***************************************************************************)
Failure(kind, provider, model, providers, models) ==
    [kind |-> kind, provider |-> provider, model |-> model,
     available_providers |-> providers, available_models |-> models]
NoFailure == Failure("none", <<>>, "", <<>>, <<>>)

(***************************************************************************)
(* LLMProviderFactory                                                      *)
(***************************************************************************)
\* `use_cache and provider_key in self._provider_instances`
CacheHit_Never(cache, provider_key, use_cache) == FALSE
CacheHit_IgnoreFlag(cache, provider_key, use_cache) == provider_key \in DOMAIN cache
CacheHit(cache, provider_key, use_cache) ==
    use_cache /\ provider_key \in DOMAIN cache

\* provider_class(provider_name=..., api_key=..., config=...): LLMProvider.__init__
NewProvider(id, cls, provider_name, api_key, cfg) ==
    [id |-> id, cls |-> cls, provider_name |-> provider_name, api_key |-> api_key,
     config |-> IF IsNone(cfg) THEN EmptyDict ELSE Val(cfg)]

\* is_provider_registered(provider_name)
is_provider_registered(reg, provider_name) == RegHas(reg, Lower(provider_name))

\* `if api_key is None: api_key = os.environ.get(f"{provider_name.upper()}_API_KEY")`
ResolveApiKey_EnvFirst(provider_name, api_key) ==
    IF IsNone(EnvGet(Upper(provider_name) \o EnvKeySuffix)) THEN api_key
    ELSE EnvGet(Upper(provider_name) \o EnvKeySuffix)
ResolveApiKey(provider_name, api_key) ==
    IF IsNone(api_key) THEN EnvGet(Upper(provider_name) \o EnvKeySuffix) ELSE api_key

\* get_provider on registry reg, cache, with `n_made` providers constructed so far
\* constructing on a miss without entering the instance in the cache
get_provider_NoInsert(reg, cache, n_made, provider_name, api_key, cfg, use_cache) ==
    LET provider_key == Lower(provider_name)
    IN  IF CacheHit(cache, provider_key, use_cache)
        THEN [raised |-> FALSE, error |-> NoFailure,
              provider |-> Some(cache[provider_key]), cache |-> cache, made |-> n_made]
        ELSE IF ~RegHas(reg, provider_key)
        THEN [raised |-> TRUE,
              error |-> Failure("provider_not_registered", provider_name, "",
                                RegKeys(reg), <<>>),
              provider |-> None, cache |-> cache, made |-> n_made]
        ELSE [raised |-> FALSE, error |-> NoFailure,
              provider |-> Some(NewProvider(n_made + 1, RegGet(reg, provider_key),
                                            provider_name,
                                            ResolveApiKey(provider_name, api_key), cfg)),
              cache |-> cache, made |-> n_made + 1]

get_provider(reg, cache, n_made, provider_name, api_key, cfg, use_cache) ==
    LET provider_key == Lower(provider_name)
    IN  IF CacheHit(cache, provider_key, use_cache)
        THEN [raised |-> FALSE, error |-> NoFailure,
              provider |-> Some(cache[provider_key]), cache |-> cache, made |-> n_made]
        ELSE IF ~RegHas(reg, provider_key)
        THEN [raised |-> TRUE,
              error |-> Failure("provider_not_registered", provider_name, "",
                                RegKeys(reg), <<>>),
              provider |-> None, cache |-> cache, made |-> n_made]
        ELSE LET key == ResolveApiKey(provider_name, api_key)
                 provider == NewProvider(n_made + 1, RegGet(reg, provider_key),
                                         provider_name, key, cfg)
             IN  [raised |-> FALSE, error |-> NoFailure, provider |-> Some(provider),
                  cache |-> IF use_cache THEN DictPut(cache, provider_key, provider)
                            ELSE cache,
                  made |-> n_made + 1]

(***************************************************************************)
(* LLMClientFactory                                                        *)
(***************************************************************************)
\* Python truth value of an Optional dict / of a dict entry
TruthyDict(o) == ~IsNone(o) /\ DOMAIN Val(o) # {}

\* the test guarding the fallback in the except-branch of create_client
FallbackApplies_NoNameTest(cfg, provider_name) ==
    /\ TruthyDict(cfg)
    /\ DictGet(Val(cfg), "fallback_to_mock", FALSE)
FallbackApplies_Always(cfg, provider_name) == provider_name # MockName
FallbackApplies_Never(cfg, provider_name) == FALSE
FallbackApplies(cfg, provider_name) ==
    /\ TruthyDict(cfg)
    /\ DictGet(Val(cfg), "fallback_to_mock", FALSE)
    /\ provider_name # MockName

\* provider.create_facade(model_name, **kwargs): the facade is bound to the
\* provider's own provider_name; its config is the model's metadata updated
\* with kwargs, then (Grok, Bedrock) with the provider's config, then (Mock)
\* given a response_delay if it has none
AppliesProviderConfig(cls) == cls \in {"GrokProvider", "BedrockProvider"}

model_config(provider, model_name, kwargs) ==
    LET c1 == Merge(ModelInfo(provider, model_name), kwargs)
        c2 == IF AppliesProviderConfig(provider.cls) THEN Merge(c1, provider.config)
              ELSE c1
    IN  IF provider.cls = "MockProvider" /\ "response_delay" \notin DOMAIN c2
        THEN Merge(c2, [response_delay |->
                          IF model_name = "mock-model-fast" THEN 1 ELSE 10])
        ELSE c2

create_facade_AnyModel(provider, model_name, kwargs) ==
    [raised |-> FALSE, error |-> NoFailure,
     facade |-> Some([model_name |-> model_name,
                      provider_name |-> provider.provider_name,
                      config |-> kwargs])]
create_facade(provider, model_name, kwargs) ==
    IF model_name \in Elems(get_available_models(provider))
    THEN [raised |-> FALSE, error |-> NoFailure,
          facade |-> Some([model_name |-> model_name,
                           provider_name |-> provider.provider_name,
                           config |-> model_config(provider, model_name, kwargs)])]
    ELSE [raised |-> TRUE,
          error |-> Failure("model_not_available", provider.provider_name, model_name,
                            <<>>, get_available_models(provider)),
          facade |-> None]

\* LLMClient(facade, history_size): deque(maxlen=history_size) rejects a
\* negative maxlen
NewClient_DefaultSize(f, history_size) ==
    [raised |-> FALSE, error |-> NoFailure,
     client |-> Some([facade |-> f, max_history |-> 50, history |-> <<>>])]
NewClient(f, history_size) ==
    IF history_size < 0
    THEN [raised |-> TRUE,
          error |-> Failure("maxlen_negative", <<>>, "", <<>>, <<>>), client |-> None]
    ELSE [raised |-> FALSE, error |-> NoFailure,
          client |-> Some([facade |-> f, max_history |-> history_size,
                           history |-> <<>>])]

\* the try-block of create_client: get the provider, validate the model,
\* create the facade, create the client
TryCreate(st, provider_name, model_name, api_key, history_size, provider_config) ==
    LET g == get_provider(st.reg, st.cache, st.made, provider_name, api_key,
                          provider_config, TRUE)
        fail(e) == [raised |-> TRUE, error |-> e, client |-> None,
                    cache |-> g.cache, made |-> g.made]
    IN  IF g.raised THEN fail(g.error)
        ELSE LET provider == Val(g.provider)
             IN  IF ~supports_model(provider, model_name)
                 THEN fail(Failure("model_not_supported", provider_name, model_name,
                                   <<>>, get_available_models(provider)))
                 ELSE LET f == create_facade(provider, model_name,
                                             IF IsNone(provider_config) THEN EmptyDict
                                             ELSE [provider_config |-> Val(provider_config)])
                      IN  IF f.raised THEN fail(f.error)
                          ELSE LET c == NewClient(Val(f.facade), history_size)
                               IN  IF c.raised THEN fail(c.error)
                                   ELSE [raised |-> FALSE, error |-> NoFailure,
                                         client |-> c.client,
                                         cache |-> g.cache, made |-> g.made]

MaxDepth == 3      \* nesting of create_client the model follows

\* `if x is None: x = self._default_x`
UseDefault_ElseMock(arg, default) ==
    IF ~IsNone(arg) THEN arg ELSE IF IsNone(default) THEN Some(MockName) ELSE default
UseDefault_DefaultFirst(arg, default) == IF IsNone(default) THEN arg ELSE default
UseDefault(arg, default) == IF IsNone(arg) THEN default ELSE arg

\* create_client(provider_name, model_name, api_key, history_size, **kwargs);
\* st is the factory state, depth the nesting of this call.  `attempts` lists
\* the (provider, model) of every try-block entered, `first` the failure of
\* the outermost try-block, `depth` the deepest nesting reached.
RECURSIVE create_client(_, _, _, _, _, _, _)
create_client(st, provider_arg, model_arg, api_key, history_size, provider_config, depth) ==
    LET provider_name == UseDefault(provider_arg, st.default_provider)
        model_name == UseDefault(model_arg, st.default_model)
        early(e) == [raised |-> TRUE, error |-> e, client |-> None,
                     cache |-> st.cache, made |-> st.made, depth |-> depth,
                     attempts |-> <<>>, first |-> NoFailure]
    IN  IF IsNone(provider_name) THEN early(Failure("no_provider", <<>>, "", <<>>, <<>>))
        ELSE IF IsNone(model_name) THEN early(Failure("no_model", <<>>, "", <<>>, <<>>))
        ELSE
          LET t == TryCreate(st, Val(provider_name), Val(model_name), api_key,
                             history_size, provider_config)
              attempt == [provider |-> Val(provider_name), model |-> Val(model_name)]
              own == [raised |-> t.raised, error |-> t.error, client |-> t.client,
                      cache |-> t.cache, made |-> t.made, depth |-> depth,
                      attempts |-> <<attempt>>, first |-> t.error]
          IN  IF ~t.raised THEN own
              ELSE IF FallbackApplies(st.config, Val(provider_name)) /\ depth < MaxDepth
              THEN LET n == create_client([st EXCEPT !.cache = t.cache, !.made = t.made],
                                          Some(MockName), Some("mock-model"), None,
                                          history_size, None, depth + 1)
                   IN  [n EXCEPT !.attempts = <<attempt>> \o @, !.first = t.error]
              ELSE own

MaxProviders == 3     \* Provider objects constructed in one run

HistorySizes == {-1, 2}

\* the registrations LLMSystem._register_providers performs (two of them)
SystemRegistrations == { <<MockName, "MockProvider">>, <<GrokName, "GrokProvider">> }

\* contents of models_config.json; JSON null is None
ConfigFiles ==
    { EmptyDict,
      [fallback_to_mock |-> TRUE],
      [defaults |-> [provider |-> None, model |-> None], fallback_to_mock |-> TRUE],
      [defaults |-> [provider |-> Some(GrokName), model |-> Some("grok-beta")],
       fallback_to_mock |-> FALSE] }

\* register_provider calls an application may add: a name differing from a
\* registered one in letter case only, bound to another class
Registrations == SystemRegistrations \cup { <<MOCKName, "GrokProvider">> }

DefaultPairs == { <<GrokName, "does-not-exist">> }

BlankResult ==
    [op |-> "init", raised |-> FALSE, error |-> NoFailure, provider |-> None,
     client |-> None, name |-> <<>>, cls |-> "", answer |-> FALSE, api_key |-> None,
     cfg |-> None, use_cache |-> FALSE, again |-> FALSE,
     provider_arg |-> None, model_arg |-> None, history_size |-> 0, depth |-> 0,
     attempts |-> <<>>, first |-> NoFailure]

FactoryState ==
    [reg |-> provider_registry, cache |-> provider_instances, made |-> made,
     config |-> config, default_provider |-> default_provider,
     default_model |-> default_model]

\* register_provider(provider_name, provider_class), the pair drawn from regs
\* a registration that also evicts the instance cached for the name
RegisterProviderFrom_Evicting(regs) ==
    \E reg \in regs :
        /\ provider_registry' = RegPut(provider_registry, Lower(reg[1]), reg[2])
        /\ provider_instances' = DictPop(provider_instances, Lower(reg[1]))
        /\ result' = [BlankResult EXCEPT !.op = "register_provider", !.name = reg[1],
                                         !.cls = reg[2]]
        /\ UNCHANGED <<made, config, default_provider,
                       default_model, last_got, clientVars, providerVars, threadVars, singletonVars>>

RegisterProviderFrom(regs) ==
    \E reg \in regs :
        /\ provider_registry' = RegPut(provider_registry, Lower(reg[1]), reg[2])
        /\ result' = [BlankResult EXCEPT !.op = "register_provider", !.name = reg[1],
                                         !.cls = reg[2]]
        /\ UNCHANGED <<provider_instances, made, config, default_provider,
                       default_model, last_got, clientVars, providerVars, threadVars, singletonVars>>

\* the registrations of system start-up
RegisterProvider == RegisterProviderFrom(SystemRegistrations)

\* LLMSystem._register_providers: every registration of system start-up, in
\* the order of its list ("mock" first, "grok" last)
RegisterProviders ==
    /\ provider_registry' = RegPut(RegPut(provider_registry, Lower(MockName), "MockProvider"),
                                   Lower(GrokName), "GrokProvider")
    /\ result' = [BlankResult EXCEPT !.op = "register_providers"]
    /\ UNCHANGED <<provider_instances, made, config, default_provider,
                   default_model, last_got, clientVars, providerVars, threadVars, singletonVars>>

\* any registration: also under another spelling and with another class
RegisterAny == RegisterProviderFrom(Registrations)

\* get_provider(provider_name, api_key, config=None, use_cache)
GetProviderWith(names, keys, cfgs) ==
    \E provider_name \in names, api_key \in keys, cfg \in cfgs, use_cache \in BOOLEAN :
        LET g == get_provider(provider_registry, provider_instances, made,
                              provider_name, api_key, cfg, use_cache)
            provider_key == Lower(provider_name)
        IN  /\ g.made <= MaxProviders
            /\ provider_instances' = g.cache
            /\ made' = g.made
            /\ last_got' = IF use_cache /\ ~g.raised
                           THEN DictPut(last_got, provider_key, Val(g.provider).id)
                           ELSE last_got
            /\ result' = [BlankResult EXCEPT !.op = "get_provider", !.raised = g.raised,
                                             !.error = g.error, !.provider = g.provider,
                                             !.name = provider_name,
                                             !.api_key = api_key,
                                             !.cfg = cfg,
                                             !.use_cache = use_cache,
                                             !.again = provider_key \in DOMAIN last_got]
            /\ UNCHANGED <<provider_registry, config, default_provider, default_model,
                           clientVars, providerVars, threadVars, singletonVars>>

\* get_provider with config left at its default
GetProvider == GetProviderWith(ProviderNames, ApiKeys, {None})

\* get_provider with an api_key and a config of the caller's
GetProviderConfigured ==
    GetProviderWith({MockName, GrokName}, ApiKeys, {None, Some([region |-> "us"])})

\* Python truth value of an Optional[str]: None and "" are false
TruthyStr(o) == ~IsNone(o) /\ Val(o) # EmptyName

\* clear_cache(provider_name=None): `if provider_name:` pops the one key,
\* the else-branch clears the whole cache
ClearCache ==
    \E arg \in {None} \cup { Some(n) : n \in ProviderNames \cup {EmptyName} } :
        /\ provider_instances' = IF TruthyStr(arg)
                                 THEN DictPop(provider_instances, Lower(Val(arg)))
                                 ELSE EmptyDict
        /\ last_got' = IF TruthyStr(arg) THEN DictPop(last_got, Lower(Val(arg)))
                       ELSE EmptyDict
        /\ result' = [BlankResult EXCEPT !.op = "clear_cache",
                                         !.name = IF IsNone(arg) THEN <<>> ELSE Val(arg),
                                         !.provider_arg = arg]
        /\ UNCHANGED <<provider_registry, made, config, default_provider, default_model,
                       clientVars, providerVars, threadVars, singletonVars>>

\* is_provider_registered(provider_name)
IsProviderRegistered ==
    \E provider_name \in ProviderNames :
        /\ result' = [BlankResult EXCEPT
                         !.op = "is_provider_registered", !.name = provider_name,
                         !.answer = is_provider_registered(provider_registry,
                                                           provider_name)]
        /\ UNCHANGED <<provider_registry, provider_instances, made, config,
                       default_provider, default_model, last_got, clientVars, providerVars, threadVars, singletonVars>>

\* load_config(config_path) on a readable JSON file
LoadConfigFrom(files) ==
    \E file \in files :
        LET defaults == DictGet(file, "defaults", EmptyDict)
        IN  /\ config' = Some(file)
            /\ default_provider' = DictGet(defaults, "provider", Some(MockName))
            /\ default_model' = DictGet(defaults, "model", Some("mock-model"))
            /\ result' = [BlankResult EXCEPT !.op = "load_config"]
            /\ UNCHANGED <<provider_registry, provider_instances, made, last_got,
                           clientVars, providerVars, threadVars, singletonVars>>

LoadConfig == LoadConfigFrom(ConfigFiles)

\* a configuration file that only enables the fallback
LoadConfigFallback == LoadConfigFrom({ [fallback_to_mock |-> TRUE] })

\* load_config(config_path) when open() fails: logged and re-raised
LoadConfigMissing ==
    /\ result' = [BlankResult EXCEPT !.op = "load_config", !.raised = TRUE,
                                     !.error = Failure("file_not_found", <<>>, "", <<>>, <<>>)]
    /\ UNCHANGED <<provider_registry, provider_instances, made, config,
                   default_provider, default_model, last_got, clientVars, providerVars, threadVars, singletonVars>>

\* set_defaults(provider, model)
SetDefaults ==
    \E d \in DefaultPairs :
        /\ default_provider' = Some(d[1])
        /\ default_model' = Some(d[2])
        /\ result' = [BlankResult EXCEPT !.op = "set_defaults",
                                         !.provider_arg = Some(d[1]),
                                         !.model_arg = Some(d[2])]
        /\ UNCHANGED <<provider_registry, provider_instances, made, config, last_got,
                       clientVars, providerVars, threadVars, singletonVars>>

\* create_client(provider_name=None, model_name=None, api_key, history_size)
\* with api_key drawn from keys
CreateClientFrom(provider_args, model_args, keys, sizes) ==
    \E provider_arg \in provider_args, model_arg \in model_args,
       api_key \in keys, history_size \in sizes :
        \E r \in { create_client(FactoryState, provider_arg, model_arg, api_key,
                                  history_size, None, 1) } :
            /\ r.made <= MaxProviders
            /\ provider_instances' = r.cache
            /\ made' = r.made
            /\ result' = [BlankResult EXCEPT !.op = "create_client", !.raised = r.raised,
                                             !.error = r.error, !.client = r.client,
                                             !.provider_arg = provider_arg,
                                             !.model_arg = model_arg,
                                             !.api_key = api_key,
                                             !.history_size = history_size,
                                             !.depth = r.depth, !.attempts = r.attempts,
                                             !.first = r.first]
            /\ UNCHANGED <<provider_registry, config, default_provider, default_model,
                           last_got, clientVars, providerVars, threadVars, singletonVars>>

CreateClientWith(keys) ==
    CreateClientFrom({None} \cup { Some(n) : n \in ProviderNames },
                     {None} \cup { Some(m) : m \in ModelNames }, keys, HistorySizes)

\* create_client with api_key left at its default
CreateClient == CreateClientWith({None})

\* create_client(name, "mock-model", api_key=...) with an api_key of the caller's
CreateClientKeyed ==
    CreateClientFrom({Some(MockName), Some(GrokName)}, {Some("mock-model")}, ApiKeys, {2})

\* client = factory.create_client(provider, model, history_size=1): the caller
\* keeps the Client that was returned and works with it from then on
CreateClientAndKeep ==
    \E provider_arg \in { Some(GrokName) },
       model_arg \in { Some("grok-beta"), Some("does-not-exist") } :
        \E r \in { create_client(FactoryState, provider_arg, model_arg, None, 1, None, 1) } :
            /\ r.made <= MaxProviders
            /\ provider_instances' = r.cache
            /\ made' = r.made
            /\ result' = [BlankResult EXCEPT !.op = "create_client", !.raised = r.raised,
                                             !.error = r.error, !.client = r.client,
                                             !.provider_arg = provider_arg,
                                             !.model_arg = model_arg,
                                             !.history_size = 1,
                                             !.depth = r.depth, !.attempts = r.attempts,
                                             !.first = r.first]
            /\ IF r.raised
               THEN UNCHANGED clientVars
               ELSE /\ facade' = Val(r.client).facade
                    /\ max_history' = Val(r.client).max_history
                    /\ history' = Val(r.client).history
                    /\ inserted' = <<>>
                    /\ stream' = IdleStream
                    /\ Quiet("create_client", None)
                    /\ default_params' = EmptyDict
                    /\ set_log' = <<>>
                    /\ options' = None
            /\ UNCHANGED <<provider_registry, config, default_provider, default_model,
                           last_got, providerVars, threadVars, singletonVars>>

\* the operations of the Client that was kept
KeptGenerate == ClientGenerateWith({"p1"}, {EmptyDict})
KeptChat == ClientChatWith({ << Msg("user", "p1") >> }, {EmptyDict})
KeptMultiShot == ClientMultiShotWith({"p1"}, {1}, {EmptyDict})

\* class attributes of the two singletons before any call
(***************************************************************************)
(* One Provider object used directly: constructed, asked whether it        *)
(* supports a model, asked for a Facade.                                   *)
(***************************************************************************)
BlankCall ==
    [op |-> "init", model |-> "", kwargs |-> EmptyDict, supported |-> FALSE,
     raised |-> FALSE, error |-> NoFailure, facade |-> None]

ProviderNew ==
    \E cls \in ProviderVariants, cfg \in ProviderConfigs :
        /\ provider_obj' = Some(NewProvider(0, cls, DefaultProviderName(cls), None, cfg))
        /\ facade_call' = [BlankCall EXCEPT !.op = "new"]
        /\ UNCHANGED <<provider_registry, provider_instances, made, config,
                       default_provider, default_model, last_got, result,
                       fstream, clientVars, threadVars, singletonVars>>

ProviderSupportsModel ==
    /\ ~IsNone(provider_obj)
    /\ \E model_name \in AskedModels :
        /\ facade_call' = [BlankCall EXCEPT
                              !.op = "supports_model", !.model = model_name,
                              !.supported = supports_model(Val(provider_obj), model_name)]
        /\ UNCHANGED <<provider_registry, provider_instances, made, config,
                       default_provider, default_model, last_got, result,
                       provider_obj, fstream, clientVars, threadVars, singletonVars>>

ProviderCreateFacade ==
    /\ ~IsNone(provider_obj)
    /\ \E model_name \in AskedModels, kwargs \in FacadeKwargs :
        \E r \in { create_facade(Val(provider_obj), model_name, kwargs) } :
            /\ facade_call' = [op |-> "create_facade", model |-> model_name,
                               kwargs |-> kwargs,
                               supported |-> supports_model(Val(provider_obj), model_name),
                               raised |-> r.raised, error |-> r.error,
                               facade |-> r.facade]
            /\ UNCHANGED <<provider_registry, provider_instances, made, config,
                           default_provider, default_model, last_got, result,
                           provider_obj, fstream, clientVars, threadVars, singletonVars>>

(***************************************************************************)
(* The streams of the Facade variants.  The underlying call (the vendor's  *)
(* streaming API; for the mock, its own formatting) delivers chunks and    *)
(* then either runs out or fails with an exception.                        *)
(***************************************************************************)
FacadeClasses ==
    {"MockFacade", "AnthropicFacade", "BedrockFacade", "TogetherFacade",
     "GoogleFacade", "HuggingFaceFacade", "GrokFacade"}
StreamMethods == {"generate_stream", "chat_stream"}
NoStream ==
    [cls |-> "", method |-> "", state |-> "none", got |-> <<>>, failure |-> None,
     raised |-> FALSE]

\* what a variant's stream method does when the underlying call fails:
\*   "marker"  `except Exception as e: yield f"Error: {str(e)}"`
\*   "silent"  HuggingFaceFacade.chat_stream: `return self.generate_stream(...)`
\*             inside the generator ends it; the stream it names is never read
\*   "raise"   MockFacade: no try/except around its body
OnFailure(cls, method) ==
    CASE cls = "MockFacade" -> "raise"
      [] cls = "HuggingFaceFacade" /\ method = "chat_stream" -> "silent"
      [] OTHER -> "marker"

\* facade.generate_stream(prompt) / facade.chat_stream(messages)
FacadeStreamOpen ==
    \E cls \in FacadeClasses, method \in StreamMethods :
        /\ fstream.state \in {"none", "done", "raised"}
        /\ fstream' = [NoStream EXCEPT !.cls = cls, !.method = method, !.state = "open"]
        /\ UNCHANGED <<provider_registry, provider_instances, made, config,
                       default_provider, default_model, last_got, result,
                       provider_obj, facade_call, clientVars, threadVars, singletonVars>>

\* next(stream) while the underlying call is still being read
FacadeStreamPull ==
    /\ fstream.state = "open"
    /\ \/ /\ Len(fstream.got) < MaxChunks
          /\ fstream' = [fstream EXCEPT !.got = Append(@, Fragments[Len(@) + 1])]
       \/ fstream' = [fstream EXCEPT !.state = "done"]
       \/ \E msg \in ExcMsgs :
             \* the mock's body can fail only before its loop over the words
             /\ fstream.cls = "MockFacade" => fstream.got = <<>>
             /\ fstream' =
                  CASE OnFailure(fstream.cls, fstream.method) = "marker" ->
                         [fstream EXCEPT !.state = "marked", !.failure = Some(msg),
                                         !.got = Append(@, ErrorMarker(msg))]
                    [] OnFailure(fstream.cls, fstream.method) = "silent" ->
                         [fstream EXCEPT !.state = "done", !.failure = Some(msg)]
                    [] OTHER ->
                         [fstream EXCEPT !.state = "raised", !.failure = Some(msg),
                                         !.raised = TRUE]
    /\ UNCHANGED <<provider_registry, provider_instances, made, config,
                   default_provider, default_model, last_got, result,
                   provider_obj, facade_call, clientVars, threadVars, singletonVars>>

\* next(stream) after the "Error: ..." fragment: the generator returns
FacadeStreamPullAfterMarker ==
    /\ fstream.state = "marked"
    /\ fstream' = [fstream EXCEPT !.state = "done"]
    /\ UNCHANGED <<provider_registry, provider_instances, made, config,
                   default_provider, default_model, last_got, result,
                   provider_obj, facade_call, clientVars, threadVars, singletonVars>>

(***************************************************************************)
(* get_provider(name, use_cache=True) called from two threads.  The method *)
(* takes no lock; the interpreter may switch threads between any two of    *)
(* its statements, each dict operation being atomic.                       *)
(***************************************************************************)
Threads == {1, 2}
ThreadNames == {MockName, MOCKName}
IdleThread ==
    [pc |-> "idle", name |-> <<>>, cls |-> "", provider |-> None, ret |-> None,
     raised |-> FALSE]

\* thread t enters get_provider(name): provider_key = provider_name.lower()
ThreadCall(t) ==
    \E provider_name \in ThreadNames :
        /\ threads[t].pc \in {"idle", "done"}
        /\ made + Cardinality({ u \in Threads : threads[u].pc \in {"check", "construct"} })
              < MaxProviders
        /\ threads' = [threads EXCEPT ![t] = [IdleThread EXCEPT !.pc = "check",
                                                                !.name = provider_name]]
        /\ UNCHANGED <<provider_registry, provider_instances, made, config,
                       default_provider, default_model, last_got, result,
                       providerVars, clientVars, singletonVars>>

\* `if use_cache and provider_key in self._provider_instances: return ...`,
\* then the registry lookup
ThreadCheck(t) ==
    LET provider_key == Lower(threads[t].name)
    IN  /\ threads[t].pc = "check"
        /\ threads' =
             [threads EXCEPT ![t] =
                IF CacheHit(provider_instances, provider_key, TRUE)
                THEN [@ EXCEPT !.pc = "done",
                               !.ret = Some(provider_instances[provider_key])]
                ELSE IF ~RegHas(provider_registry, provider_key)
                THEN [@ EXCEPT !.pc = "done", !.raised = TRUE]
                ELSE [@ EXCEPT !.pc = "construct",
                               !.cls = RegGet(provider_registry, provider_key)]]
        /\ UNCHANGED <<provider_registry, provider_instances, made, config,
                       default_provider, default_model, last_got, result,
                       providerVars, clientVars, singletonVars>>

\* provider = provider_class(provider_name=..., api_key=..., config=config)
ThreadConstruct(t) ==
    /\ threads[t].pc = "construct"
    /\ made' = made + 1
    /\ threads' = [threads EXCEPT ![t] =
                     [@ EXCEPT !.pc = "insert",
                               !.provider =
                                  Some(NewProvider(made + 1, threads[t].cls,
                                                   threads[t].name,
                                                   ResolveApiKey(threads[t].name, None),
                                                   None))]]
    /\ UNCHANGED <<provider_registry, provider_instances, config,
                   default_provider, default_model, last_got, result,
                   providerVars, clientVars, singletonVars>>

\* self._provider_instances[provider_key] = provider; return provider
ThreadInsert(t) ==
    /\ threads[t].pc = "insert"
    /\ provider_instances' = DictPut(provider_instances, Lower(threads[t].name),
                                     Val(threads[t].provider))
    /\ threads' = [threads EXCEPT ![t] = [@ EXCEPT !.pc = "done",
                                                   !.ret = threads[t].provider]]
    /\ UNCHANGED <<provider_registry, made, config,
                   default_provider, default_model, last_got, result,
                   providerVars, clientVars, singletonVars>>

ThreadsCall == \E t \in Threads : ThreadCall(t)
ThreadsCheck == \E t \in Threads : ThreadCheck(t)
ThreadsConstruct == \E t \in Threads : ThreadConstruct(t)
ThreadsInsert == \E t \in Threads : ThreadInsert(t)

FactoryInit ==
    /\ provider_registry = <<>>
    /\ provider_instances = EmptyDict
    /\ made = 0
    /\ config = None
    /\ default_provider = None
    /\ default_model = None
    /\ last_got = EmptyDict
    /\ result = BlankResult
    /\ provider_obj = None
    /\ facade_call = BlankCall
    /\ fstream = NoStream
    /\ threads = [t \in Threads |-> IdleThread]


(***************************************************************************)
(* The two singletons as objects.  __new__ hands out cls._instance,        *)
(* allocating it on the first call; __init__ runs on every acquisition and *)
(* initialises only once.  The registry and the provider cache are class   *)
(* attributes mutated in place; set_defaults and load_config assign        *)
(* attributes of the object they are called on.  In the other              *)
(* specifications config, default_provider and default_model are the       *)
(* attributes of the one LLMClientFactory object.                          *)
(***************************************************************************)
MaxHandles == 3       \* references obtained in one run

RegistryClass == "LLMProviderFactory"
FactoryClass == "LLMClientFactory"

\* a factory object right after object.__new__ and `_initialized = False`;
\* attributes not yet assigned read as the class attributes (None)
NewObject(cls) ==
    [cls |-> cls, initialized |-> FALSE, provider_factory |-> None,
     config |-> None, default_provider |-> None, default_model |-> None]

\* cls.__new__(cls) given the class attribute _instance: [instance, objects]
New_Fresh(instance, objs, cls) ==
    [instance |-> Some(Len(objs) + 1), objects |-> Append(objs, NewObject(cls))]
New(instance, objs, cls) ==
    IF IsNone(instance)
    THEN [instance |-> Some(Len(objs) + 1), objects |-> Append(objs, NewObject(cls))]
    ELSE [instance |-> instance, objects |-> objs]

\* LLMProviderFactory(): __new__, then __init__
AcquireRegistryIn(instance, objs) ==
    LET n == New(instance, objs, RegistryClass)
        id == Val(n.instance)
    IN  [instance |-> n.instance, id |-> id,
         objects |-> [n.objects EXCEPT ![id].initialized = TRUE]]

AcquireRegistry ==
    \E a \in { AcquireRegistryIn(registry_instance, objects) } :
        /\ Len(handles) < MaxHandles
        /\ registry_instance' = a.instance
        /\ objects' = a.objects
        /\ handles' = Append(handles, [cls |-> RegistryClass, id |-> a.id])
        /\ UNCHANGED <<factory_instance, last_set, clientVars, factoryVars>>

\* LLMClientFactory(): __new__, then __init__, which on the first run stores
\* LLMProviderFactory() in self.provider_factory
AcquireClientFactory ==
    \E n \in { New(factory_instance, objects, FactoryClass) } :
      \E a \in { AcquireRegistryIn(registry_instance, n.objects) } :
        LET id == Val(n.instance)
            first == ~n.objects[id].initialized
        IN  /\ Len(handles) < MaxHandles
            /\ factory_instance' = n.instance
            /\ registry_instance' = IF first THEN a.instance ELSE registry_instance
            /\ objects' = IF first
                          THEN [a.objects EXCEPT ![id].initialized = TRUE,
                                                 ![id].provider_factory = Some(a.id)]
                          ELSE n.objects
            /\ handles' = Append(handles, [cls |-> FactoryClass, id |-> id])
            /\ UNCHANGED <<last_set, clientVars, factoryVars>>

\* the references to a client factory the program holds
FactoryHandles == { i \in 1..Len(handles) : handles[i].cls = FactoryClass }

Stored(obj) ==
    [config |-> obj.config, default_provider |-> obj.default_provider,
     default_model |-> obj.default_model]

\* h.set_defaults(provider, model) on a reference h
SetDefaultsVia ==
    \E i \in FactoryHandles, d \in DefaultPairs :
        LET id == handles[i].id
            obj == [objects[id] EXCEPT !.default_provider = Some(d[1]),
                                       !.default_model = Some(d[2])]
        IN  /\ objects' = [objects EXCEPT ![id] = obj]
            /\ last_set' = [stored |-> Stored(obj), handles |-> Len(handles)]
            /\ UNCHANGED <<registry_instance, factory_instance, handles,
                           clientVars, factoryVars>>

\* h.load_config(path) on a reference h
LoadConfigVia ==
    \E i \in FactoryHandles, file \in ConfigFiles :
        LET id == handles[i].id
            defaults == DictGet(file, "defaults", EmptyDict)
            obj == [objects[id] EXCEPT
                      !.config = Some(file),
                      !.default_provider = DictGet(defaults, "provider", Some(MockName)),
                      !.default_model = DictGet(defaults, "model", Some("mock-model"))]
        IN  /\ objects' = [objects EXCEPT ![id] = obj]
            /\ last_set' = [stored |-> Stored(obj), handles |-> Len(handles)]
            /\ UNCHANGED <<registry_instance, factory_instance, handles,
                           clientVars, factoryVars>>

\* before either class was instantiated
SingletonInit ==
    /\ registry_instance = None
    /\ factory_instance = None
    /\ objects = <<>>
    /\ handles = <<>>
    /\ last_set = [stored |-> Stored(NewObject(FactoryClass)), handles |-> 0]

(***************************************************************************)
(* Specifications                                                          *)
(***************************************************************************)
\* LLMInteractionHistory(max_history=N), driven directly
HistoryInit == ClientInitWith(MaxCap) /\ FactoryInit /\ SingletonInit
HistoryNext ==
    \/ HistoryAdd
    \/ HistoryClear
    \/ HistoryGet
    \/ HistoryGetAsMessages
HistorySpec == HistoryInit /\ [][HistoryNext]_vars

\* LLMClient(facade, history_size=N), used without streaming
ClientInit == ClientInitWith(MaxCap) /\ FactoryInit /\ SingletonInit
ClientNext ==
    \/ ClientGenerate
    \/ ClientChat
    \/ ClientMultiShot
    \/ ClientClearHistory
ClientSpec == ClientInit /\ [][ClientNext]_vars

\* LLMClient(facade, history_size=N), every operation including streaming
StreamInit == ClientInitWith(StreamCap) /\ FactoryInit /\ SingletonInit
StreamNext ==
    \/ StreamClientGenerate
    \/ StreamClientChat
    \/ StreamClientMultiShot
    \/ ClientClearHistory
    \/ StreamCreate
    \/ StreamPull
    \/ StreamPullAfterError
    \/ StreamPullFinished
    \/ StreamAbandon
StreamSpec == StreamInit /\ [][StreamNext]_vars

\* LLMClient(facade, history_size=0) whose default parameters are set and
\* whose calls carry overrides
ParamsInit == ClientInitWith(0) /\ FactoryInit /\ SingletonInit
ParamsNext ==
    \/ SetDefaultParams
    \/ ParamsGenerate
    \/ ParamsChat
    \/ ParamsMultiShot
    \/ ParamsStreamCreate
    \/ StreamPull
    \/ StreamPullAfterError
    \/ StreamAbandon
ParamsSpec == ParamsInit /\ [][ParamsNext]_vars

\* one Provider of any class, used without the factories
ProviderInit == ClientInitWith(0) /\ FactoryInit /\ SingletonInit
ProviderNext ==
    \/ ProviderNew
    \/ ProviderSupportsModel
    \/ ProviderCreateFacade
ProviderSpec == ProviderInit /\ [][ProviderNext]_vars

\* the provider cache against the arguments of later calls
CachedInit == ClientInitWith(0) /\ FactoryInit /\ SingletonInit
CachedNext ==
    \/ RegisterProvider
    \/ GetProviderConfigured
    \/ ClearCache
    \/ CreateClientKeyed
CachedSpec == CachedInit /\ [][CachedNext]_vars

\* the stream of a Facade, read by its consumer
FacadeStreamInit == ClientInitWith(0) /\ FactoryInit /\ SingletonInit
FacadeStreamNext ==
    \/ FacadeStreamOpen
    \/ FacadeStreamPull
    \/ FacadeStreamPullAfterMarker
FacadeStreamSpec == FacadeStreamInit /\ [][FacadeStreamNext]_vars

\* a Client made by create_client and used afterwards
KeptInit == ClientInitWith(0) /\ FactoryInit /\ SingletonInit
KeptNext ==
    \/ RegisterProviders
    \/ LoadConfigFallback
    \/ CreateClientAndKeep
    \/ KeptGenerate
    \/ KeptChat
    \/ KeptMultiShot
    \/ StreamCreate
    \/ StreamPull
    \/ StreamPullAfterError
    \/ StreamAbandon
KeptSpec == KeptInit /\ [][KeptNext]_vars

\* LLMProviderFactory.get_provider called from two threads
ConcurrentInit == ClientInitWith(0) /\ FactoryInit /\ SingletonInit
ConcurrentNext ==
    \/ RegisterProvider
    \/ ThreadsCall
    \/ ThreadsCheck
    \/ ThreadsConstruct
    \/ ThreadsInsert
ConcurrentSpec == ConcurrentInit /\ [][ConcurrentNext]_vars

\* LLMProviderFactory: the provider registry and its cache
RegistryInit == ClientInitWith(0) /\ FactoryInit /\ SingletonInit
RegistryNext ==
    \/ RegisterAny
    \/ GetProvider
    \/ ClearCache
    \/ IsProviderRegistered
RegistrySpec == RegistryInit /\ [][RegistryNext]_vars

\* the two factories acquired repeatedly and used through any reference
SingletonSpecInit == ClientInitWith(0) /\ FactoryInit /\ SingletonInit
SingletonNext ==
    \/ AcquireRegistry
    \/ AcquireClientFactory
    \/ SetDefaultsVia
    \/ LoadConfigVia
    \/ RegisterProvider
SingletonSpec == SingletonSpecInit /\ [][SingletonNext]_vars

\* LLMClientFactory on top of the registry
Init == ClientInitWith(0) /\ FactoryInit /\ SingletonInit
Next ==
    \/ RegisterProvider
    \/ LoadConfig
    \/ LoadConfigMissing
    \/ SetDefaults
    \/ CreateClient
Spec == Init /\ [][Next]_vars

(***************************************************************************)
(* Properties of the History and the Client                                *)
(***************************************************************************)

\* C1: whatever Client operations ran (generate, chat, multi_shot_generate,
\* generate_stream pulled to the end, clear_history), the History of a Client
\* built with capacity N >= 0 holds at most N Interactions.
C1_HistoryWithinCapacity == max_history >= 0 /\ size(history) <= max_history

\* a stream pulled to exhaustion recorded its Interaction into a full History
C1_Witness ==
    /\ last.op = "stream_pull" /\ last.evicted
    /\ max_history = 1 /\ size(history) = 1
    /\ history[1].response = "ab"

\* C2: once k > N Interactions were inserted into an empty History of
\* capacity N, size() is N and get() is exactly the last N inserted
\* Interactions, in insertion order.
C2_KeepsLastN ==
    Len(inserted) > max_history =>
        /\ size(history) = max_history
        /\ get_history(history, None)
             = SubSeq(inserted, Len(inserted) - max_history + 1, Len(inserted))

\* four insertions into a History of capacity 2: two were evicted
C2_Witness ==
    /\ max_history = 2 /\ Len(inserted) = 4 /\ last.evicted
    /\ inserted[3] # inserted[4] /\ inserted[1] # inserted[3]

\* C3: generate and chat turn a raising Facade call into a Response with empty
\* content and a non-empty error, and an error-carrying Response (raised or
\* returned by the Facade) never comes with a change of the History.
C3_ErrorsBecomeResponses ==
    [][ last'.op \in {"generate", "chat"} =>
          /\ last'.facade_raised =>
                /\ ~IsNone(last'.ret)
                /\ Val(last'.ret).content = ""
                /\ ~IsNone(Val(last'.ret).error)
                /\ Val(Val(last'.ret).error) # ""
          /\ (~IsNone(last'.ret) /\ ~IsNone(Val(last'.ret).error)) =>
                history' = history ]_vars

(***************************************************************************)
(* Properties of the registry and the client factory                       *)
(***************************************************************************)

\* C4: a get_provider(name, use_cache=True) that follows another one for the
\* same (case-insensitive) name, with no clear_cache of it in between,
\* returns the same Provider instance and constructs nothing; the instance is
\* constructed by the call that finds the cache empty, and only then.
C4_CachedInstanceReused ==
    [][ (result'.op = "get_provider" /\ result'.use_cache /\ ~result'.raised) =>
          LET provider_key == Lower(result'.name)
          IN  /\ provider_key \in DOMAIN last_got =>
                    /\ Val(result'.provider).id = last_got[provider_key]
                    /\ made' = made
              /\ provider_key \notin DOMAIN provider_instances =>
                    /\ made' = made + 1
                    /\ Val(result'.provider).id = made' ]_vars

\* a second get_provider, under another spelling of the name, got the one
\* instance constructed so far
C4_Witness ==
    /\ result.op = "get_provider" /\ result.use_cache /\ ~result.raised
    /\ result.again /\ made = 1 /\ Val(result.provider).id = 1
    /\ result.name # Val(result.provider).provider_name

FallbackEnabled == TruthyDict(config) /\ DictGet(Val(config), "fallback_to_mock", FALSE)
FallbackPair == [provider |-> MockName, model |-> "mock-model"]
RequestedProvider == UseDefault(result.provider_arg, default_provider)
RequestedModel == UseDefault(result.model_arg, default_model)
BoundToFallback(client) ==
    /\ client.facade.model_name = "mock-model"
    /\ Lower(client.facade.provider_name) = MockName

\* C5 as stated: with fallback enabled and a requested provider other than
\* "mock", a failure in any of the steps 1-5 of create_client is followed by
\* one retry against mock / mock-model, whose Client is returned if it succeeds.
C5_FallbackOnAnyFailure ==
    (/\ result.op = "create_client" /\ FallbackEnabled
     /\ RequestedProvider # Some(MockName)
     /\ \/ result.first.kind # "none"
        \/ result.attempts = <<>> /\ result.raised) =>
        /\ Len(result.attempts) = 2 /\ result.attempts[2] = FallbackPair
        /\ ~result.raised => BoundToFallback(Val(result.client))

\* C5 (amended): with fallback enabled and a requested provider other than
\* "mock", a failure in step 3, 4 or 5 (obtaining the Provider, validating the
\* model, building the Facade and the Client) is followed by one retry against
\* mock / mock-model, whose Client is returned if it succeeds; a failure to
\* resolve the provider or the model name (steps 1-2) is propagated with no retry.
C5_FallbackOnTryFailure ==
    result.op = "create_client" /\ FallbackEnabled =>
        /\ (result.first.kind # "none" /\ result.attempts[1].provider # MockName) =>
              /\ Len(result.attempts) = 2 /\ result.attempts[2] = FallbackPair
              /\ ~result.raised => BoundToFallback(Val(result.client))
        /\ (IsNone(RequestedProvider) \/ IsNone(RequestedModel)) =>
              /\ result.raised /\ result.attempts = <<>>
              /\ result.error.kind \in {"no_provider", "no_model"}

\* grok does not support the model, and the retry returned a mock Client
C5_Witness ==
    /\ result.op = "create_client" /\ FallbackEnabled /\ ~result.raised
    /\ result.first.kind = "model_not_supported"
    /\ result.attempts[1].provider = GrokName
    /\ Len(result.attempts) = 2

\* C6: without fallback (no configuration loaded, or fallback_to_mock absent
\* or false) every failure of create_client reaches the caller as the original
\* failure, after a single attempt, and no Client is returned.
C6_NoFallbackPropagates ==
    (result.op = "create_client" /\ ~FallbackEnabled) =>
        /\ Len(result.attempts) <= 1
        /\ result.first.kind # "none" =>
              result.raised /\ IsNone(result.client) /\ result.error = result.first
        /\ (IsNone(RequestedProvider) \/ IsNone(RequestedModel)) =>
              /\ result.raised /\ IsNone(result.client)
              /\ result.error.kind \in {"no_provider", "no_model"}

\* fallback_to_mock is false in the loaded configuration and an unregistered
\* provider was asked for
C6_Witness ==
    /\ result.op = "create_client" /\ result.raised
    /\ ~IsNone(config) /\ "fallback_to_mock" \in DOMAIN Val(config)
    /\ ~FallbackEnabled
    /\ result.error.kind = "provider_not_registered"
    /\ RegHas(provider_registry, MockName)

\* C7: a create_client call nests at most two deep (the original attempt and
\* one fallback attempt against mock / mock-model), and a failing fallback
\* attempt ends the call with that failure.
C7_FallbackAtMostOnce ==
    result.op = "create_client" =>
        /\ result.depth <= 2
        /\ Len(result.attempts) <= 2
        /\ Len(result.attempts) = 2 =>
              /\ result.attempts[2] = FallbackPair
              /\ result.first.kind # "none"
              /\ result.raised => IsNone(result.client) /\ result.error.kind # "none"

\* the fallback attempt failed too: "mock" is not registered
C7_Witness ==
    /\ result.op = "create_client" /\ result.raised
    /\ Len(result.attempts) = 2
    /\ result.error.kind = "provider_not_registered"
    /\ result.error.provider = MockName

\* C8: create_client with no provider argument and no default provider fails
\* with the no-provider condition; it constructs no Provider and leaves the
\* provider cache as it was.
C8_NoProviderFailsEarly ==
    [][ (result'.op = "create_client" /\ IsNone(result'.provider_arg)
         /\ IsNone(default_provider)) =>
          /\ result'.raised /\ result'.error.kind = "no_provider"
          /\ IsNone(result'.client)
          /\ made' = made
          /\ provider_instances' = provider_instances ]_vars

\* the no-provider failure with fallback enabled and a Provider already cached
C8_Witness ==
    /\ result.op = "create_client" /\ result.error.kind = "no_provider"
    /\ FallbackEnabled /\ made >= 1

\* C9: when "mock" is the MockProvider, create_client(provider="mock",
\* model=id) for an id outside its catalog fails, returns no Client, and the
\* failure lists exactly the catalog of the mock provider - also with
\* fallback enabled.
C9_UnsupportedMockModel ==
    (/\ result.op = "create_client" /\ result.provider_arg = Some(MockName)
     /\ ~IsNone(result.model_arg)
     /\ Val(result.model_arg) \notin Elems(MockCatalog)
     /\ RegHas(provider_registry, MockName)) =>
        /\ result.raised /\ IsNone(result.client)
        /\ result.error.model = Val(result.model_arg)
        /\ result.error.available_models
             = get_available_models(provider_instances[MockName])
        /\ result.error.available_models = MockCatalog

C9_Witness ==
    /\ result.op = "create_client" /\ result.provider_arg = Some(MockName)
    /\ result.model_arg = Some("does-not-exist")
    /\ FallbackEnabled /\ result.raised
    /\ result.error.kind = "model_not_supported"

\* the Provider a Facade was made by: the cached instance for its provider id
ProviderOf(f) == provider_instances[Lower(f.provider_name)]

\* C10 as stated: a Client returned by create_client(provider, model,
\* history_size=h) has an empty History of capacity h and a Facade whose model
\* is in the catalog of its provider; without fallback the Facade is bound to
\* the resolved (provider, model).
C10_ClientAsRequested ==
    (result.op = "create_client" /\ ~result.raised) =>
        LET client == Val(result.client)
        IN  /\ client.history = <<>>
            /\ client.max_history = result.history_size
            /\ client.facade.model_name
                 \in Elems(get_available_models(ProviderOf(client.facade)))
            /\ Len(result.attempts) = 1 =>
                  /\ Some(client.facade.provider_name) = RequestedProvider
                  /\ Some(client.facade.model_name) = RequestedModel

\* C10 (amended): as stated, except that without fallback the Facade's
\* provider id is the name the cached Provider instance was constructed
\* under, which equals the resolved provider name up to letter case.
C10_ClientAsRequestedUpToCase ==
    (result.op = "create_client" /\ ~result.raised) =>
        LET client == Val(result.client)
        IN  /\ client.history = <<>>
            /\ client.max_history = result.history_size
            /\ client.facade.model_name
                 \in Elems(get_available_models(ProviderOf(client.facade)))
            /\ Len(result.attempts) = 1 =>
                  /\ Lower(client.facade.provider_name) = Lower(Val(RequestedProvider))
                  /\ client.facade.provider_name
                       = provider_instances[Lower(Val(RequestedProvider))].provider_name
                  /\ Some(client.facade.model_name) = RequestedModel

\* "mock" was asked for and the cached instance had been constructed as "MOCK"
C10_Witness ==
    /\ result.op = "create_client" /\ ~result.raised
    /\ Len(result.attempts) = 1
    /\ RequestedProvider = Some(MockName)
    /\ Val(result.client).facade.provider_name = MOCKName
    /\ Val(result.client).max_history = 2

\* C11: create_client targets the explicit provider argument if one is given
\* and the default provider otherwise, and the model likewise and
\* independently of the provider; set_defaults(p, m) makes (p, m) the
\* defaults, so that a create_client() with no arguments right after it
\* targets (p, m) whatever load_config had set before.
C11_ResolvesArgumentThenDefault ==
    [][ /\ result'.op = "set_defaults" =>
              /\ default_provider' = result'.provider_arg
              /\ default_model' = result'.model_arg
        /\ result'.op = "create_client" =>
              LET p == IF IsNone(result'.provider_arg) THEN default_provider
                       ELSE result'.provider_arg
                  m == IF IsNone(result'.model_arg) THEN default_model
                       ELSE result'.model_arg
              IN  /\ (~IsNone(p) /\ ~IsNone(m)) =>
                        /\ result'.attempts # <<>>
                        /\ result'.attempts[1] = [provider |-> Val(p), model |-> Val(m)]
                  /\ (IsNone(p) \/ IsNone(m)) =>
                        result'.raised /\ result'.attempts = <<>>
                  /\ (/\ result.op = "set_defaults"
                      /\ IsNone(result'.provider_arg) /\ IsNone(result'.model_arg)) =>
                        result'.attempts[1] = [provider |-> Val(result.provider_arg),
                                               model |-> Val(result.model_arg)] ]_vars

\* create_client() with no arguments targeted the pair given to set_defaults,
\* not the defaults of the configuration loaded before it
C11_Witness ==
    /\ result.op = "create_client"
    /\ IsNone(result.provider_arg) /\ IsNone(result.model_arg)
    /\ ~IsNone(config) /\ "defaults" \in DOMAIN Val(config)
    /\ Val(config).defaults.model = Some("grok-beta")
    /\ result.attempts[1] = [provider |-> GrokName, model |-> "does-not-exist"]

\* C12: get_provider(name) for a name whose lower-cased form has no registered
\* class fails with the unregistered-provider condition, whose message lists
\* the registered names in registration order; the registry and the cache
\* stay as they were and no Provider is constructed.
C12_UnregisteredProviderFails ==
    [][ (/\ result'.op = "get_provider"
         /\ \A i \in 1..Len(provider_registry) :
                provider_registry[i].key # Lower(result'.name)) =>
          /\ result'.raised /\ IsNone(result'.provider)
          /\ result'.error.kind = "provider_not_registered"
          /\ result'.error.provider = result'.name
          /\ result'.error.available_providers
               = [i \in 1..Len(provider_registry) |-> provider_registry[i].key]
          /\ provider_registry' = provider_registry
          /\ provider_instances' = provider_instances
          /\ made' = made ]_vars

\* "nope" was asked for while two providers were registered and one cached
C12_Witness ==
    /\ result.op = "get_provider" /\ result.raised
    /\ result.name = NopeName
    /\ result.error.available_providers = <<GrokName, MockName>>
    /\ DOMAIN provider_instances = {MockName}

\* two provider names that differ at most in the case of their letters
SameUpToCase(a, b) ==
    /\ Len(a) = Len(b)
    /\ \A i \in 1..Len(a) :
          \/ a[i] = b[i]
          \/ a[i] \in 65..90 /\ b[i] = a[i] + 32
          \/ b[i] \in 65..90 /\ a[i] = b[i] + 32

\* C13: registry keys ignore letter case and registration overwrites.
\* register_provider(name, C) leaves exactly one entry for the spellings of
\* name, bound to C, adds an entry only if there was none, keeps every other
\* entry, and changes nothing when the entry was already bound to C;
\* get_provider, clear_cache and is_provider_registered act on the entry or
\* cached instance of any spelling of the name they are given.
C13_CaseInsensitiveOverwrite ==
    [][ LET name == result'.name
            Entries(reg) == { i \in 1..Len(reg) : SameUpToCase(reg[i].key, name) }
            Cached(cache) == { k \in DOMAIN cache : SameUpToCase(k, name) }
        IN  /\ result'.op = "register_provider" =>
                  /\ Cardinality(Entries(provider_registry')) = 1
                  /\ \A i \in Entries(provider_registry') :
                        provider_registry'[i].cls = result'.cls
                  /\ Len(provider_registry')
                       = Len(provider_registry)
                         + (IF Entries(provider_registry) = {} THEN 1 ELSE 0)
                  /\ \A i \in (1..Len(provider_registry)) \ Entries(provider_registry) :
                        provider_registry'[i] = provider_registry[i]
                  /\ (\E i \in Entries(provider_registry) :
                         provider_registry[i].cls = result'.cls) =>
                        provider_registry' = provider_registry
            /\ result'.op = "get_provider" =>
                  /\ result'.raised <=> Entries(provider_registry) = {}
                  /\ (~result'.raised /\ result'.use_cache) =>
                        /\ \A k \in Cached(provider_instances) :
                              Val(result'.provider) = provider_instances[k]
                        /\ Cardinality(Cached(provider_instances')) = 1
                        /\ \A k \in Cached(provider_instances') :
                              provider_instances'[k] = Val(result'.provider)
                  /\ (~result'.raised /\ made' # made) =>
                        \A i \in Entries(provider_registry) :
                            Val(result'.provider).cls = provider_registry[i].cls
            /\ (result'.op = "clear_cache" /\ name # <<>>) =>
                  /\ Cached(provider_instances') = {}
                  /\ \A k \in DOMAIN provider_instances \ Cached(provider_instances) :
                        /\ k \in DOMAIN provider_instances'
                        /\ provider_instances'[k] = provider_instances[k]
            /\ result'.op = "is_provider_registered" =>
                  (result'.answer <=> Entries(provider_registry) # {}) ]_vars

\* register_provider("MOCK", GrokProvider) replaced the class registered for
\* "mock" and added no entry
C13_Witness ==
    /\ result.op = "register_provider" /\ result.name = MOCKName
    /\ result.cls = "GrokProvider"
    /\ provider_registry = << [key |-> MockName, cls |-> "GrokProvider"],
                              [key |-> GrokName, cls |-> "GrokProvider"] >>
    /\ DOMAIN provider_instances = {MockName}
    /\ provider_instances[MockName].cls = "MockProvider"

\* C14: clear_cache(name) removes the cached instance of that provider and
\* no other, clear_cache() removes every cached instance, neither touches the
\* registry, and a get_provider that finds no cached instance for its name
\* constructs a new Provider, distinct from every instance made before.
C14_ClearCacheEvicts ==
    [][ /\ result'.op = "clear_cache" =>
              /\ provider_registry' = provider_registry
              /\ made' = made
              /\ IsNone(result'.provider_arg) => provider_instances' = EmptyDict
              /\ ~IsNone(result'.provider_arg) =>
                    /\ DOMAIN provider_instances'
                         = DOMAIN provider_instances \ {Lower(Val(result'.provider_arg))}
                    /\ \A k \in DOMAIN provider_instances' :
                          provider_instances'[k] = provider_instances[k]
        /\ (/\ result'.op = "get_provider" /\ ~result'.raised
            /\ Lower(result'.name) \notin DOMAIN provider_instances) =>
              /\ made' = made + 1
              /\ Val(result'.provider).id = made'
              /\ \A k \in DOMAIN provider_instances :
                    provider_instances[k].id # Val(result'.provider).id ]_vars

\* C15: get_provider(name, use_cache=False) for a registered name neither
\* reads nor writes the cache: it constructs a new Provider even when one is
\* cached for the name, returns that new instance, which is none of the
\* cached ones, and leaves the cache as it was.
C15_NoCacheBypasses ==
    [][ (/\ result'.op = "get_provider" /\ ~result'.use_cache
         /\ \E i \in 1..Len(provider_registry) :
                provider_registry[i].key = Lower(result'.name)) =>
          /\ ~result'.raised
          /\ made' = made + 1
          /\ Val(result'.provider).id = made'
          /\ \A k \in DOMAIN provider_instances :
                /\ provider_instances[k].id # Val(result'.provider).id
                /\ provider_instances[k] # Val(result'.provider)
          /\ provider_instances' = provider_instances ]_vars

\* an uncached get_provider("mock") while instance 1 stays cached for "mock"
C15_Witness ==
    /\ result.op = "get_provider" /\ ~result.use_cache /\ ~result.raised
    /\ result.name = MockName
    /\ MockName \in DOMAIN provider_instances
    /\ provider_instances[MockName].id = 1
    /\ Val(result.provider).id = 2

\* C16: a Provider constructed by get_provider carries the explicit key when
\* one was passed, and otherwise the value stored in the environment under
\* upper(name) + "_API_KEY", or no credential if the environment has no such
\* entry; a key that was passed is never replaced by the environment's.
C16_ExplicitKeyThenEnvironment ==
    [][ (result'.op = "get_provider" /\ ~result'.raised /\ made' = made + 1) =>
          LET provider == Val(result'.provider)
              env_key == Upper(result'.name) \o EnvKeySuffix
          IN  /\ ~IsNone(result'.api_key) => provider.api_key = result'.api_key
              /\ IsNone(result'.api_key) =>
                    provider.api_key = (IF env_key \in DOMAIN Environ
                                        THEN Some(Environ[env_key]) ELSE None) ]_vars

\* get_provider("mock", api_key="k1") while MOCK_API_KEY is set: the Provider
\* just constructed holds "k1"
C16_Witness ==
    /\ result.op = "get_provider" /\ ~result.raised
    /\ result.name = MockName /\ result.api_key = Some("k1")
    /\ Val(result.provider).id = made
    /\ Val(result.provider).api_key = Some("k1")
    /\ MOCKName \o EnvKeySuffix \in DOMAIN Environ

\* C17: every acquisition of LLMProviderFactory yields one and the same
\* object, and so does every acquisition of LLMClientFactory; the registry a
\* client factory holds is that one registry object; and what was stored
\* through any reference to the client factory (set_defaults, load_config) is
\* what every reference, obtained before or after, reads.
C17_SingletonsShared ==
    /\ \A i, j \in 1..Len(handles) :
          handles[i].cls = handles[j].cls => handles[i].id = handles[j].id
    /\ \A i \in 1..Len(handles) :
          /\ objects[handles[i].id].cls = handles[i].cls
          /\ handles[i].cls = RegistryClass => Some(handles[i].id) = registry_instance
          /\ handles[i].cls = FactoryClass =>
                /\ Some(handles[i].id) = factory_instance
                /\ objects[handles[i].id].provider_factory = registry_instance
                /\ Stored(objects[handles[i].id]) = last_set.stored

\* a client factory acquired after set_defaults had been called on an
\* earlier acquisition
C17_Witness ==
    /\ Len(handles) = 3
    /\ handles[1].cls = FactoryClass /\ handles[2].cls = RegistryClass
    /\ handles[3].cls = FactoryClass
    /\ last_set.handles = 1
    /\ last_set.stored.default_model = Some("does-not-exist")
    /\ RegKeys(provider_registry) = <<MockName>>

\* C18: for every n >= 0, get_history(n) is the min(n, size) most recent
\* Interactions of the History, oldest first, and get_history() with n
\* omitted is the whole History in insertion order.
C18_GetReturnsMostRecent ==
    last.op = "get_history" =>
        IF IsNone(last.n) THEN last.got = history
        ELSE LET k == IF Val(last.n) < Len(history) THEN Val(last.n) ELSE Len(history)
             IN  /\ Len(last.got) = k
                 /\ last.got = SubSeq(history, Len(history) - k + 1, Len(history))

\* C19: get_as_messages(n) returns two messages per Interaction selected by
\* get_history(n), in the order of the selection: for the i-th selected
\* Interaction a user message carrying its prompt, immediately followed by an
\* assistant message carrying its response content.
C19_MessagesPairUp ==
    last.op = "get_as_messages" =>
        LET sel == get_history(history, last.n)
        IN  /\ Len(last.got) = 2 * Len(sel)
            /\ \A i \in 1..Len(sel) :
                  /\ last.got[2 * i - 1] = [role |-> "user", content |-> sel[i].prompt]
                  /\ last.got[2 * i]
                       = [role |-> "assistant", content |-> sel[i].response]

\* get_as_messages(2) on a History of two different Interactions
C19_Witness ==
    /\ last.op = "get_as_messages" /\ last.n = Some(2)
    /\ Len(history) = 2 /\ Len(last.got) = 4
    /\ history[1].prompt # history[2].prompt
    /\ history[1].response # history[2].response
    /\ last.got[3].content = history[2].prompt

\* C20: generate(prompt, use_history) makes exactly one Facade call.  With
\* use_history true and a non-empty History it is a chat call whose messages
\* are the whole History as user / assistant pairs, oldest first, followed by
\* the prompt as a user message (2 * size + 1 messages); in every other case
\* it is generate(prompt).
C20_GenerateIssuesOneCall ==
    [][ last'.op = "generate" =>
          /\ Len(last'.calls) = 1
          /\ LET call == last'.calls[1]
                 k == Len(history)
             IN  IF last'.use_history /\ k > 0
                 THEN /\ call.method = "chat"
                      /\ Len(call.messages) = 2 * k + 1
                      /\ call.messages[2 * k + 1]
                           = [role |-> "user", content |-> last'.prompt]
                      /\ \A i \in 1..k :
                            /\ call.messages[2 * i - 1]
                                 = [role |-> "user", content |-> history[i].prompt]
                            /\ call.messages[2 * i]
                                 = [role |-> "assistant",
                                    content |-> history[i].response]
                 ELSE /\ call.method = "generate"
                      /\ call.prompt = last'.prompt
                      /\ call.messages = <<>> ]_vars

\* generate with use_history on a full History of two: a chat call of five
\* messages, and the new Interaction evicted the oldest one
C20_Witness ==
    /\ last.op = "generate" /\ last.use_history /\ last.evicted
    /\ max_history = 2
    /\ last.calls[1].method = "chat" /\ Len(last.calls[1].messages) = 5
    /\ last.calls[1].messages[5].content = last.prompt

\* a History after one add of Interaction x: x appended, then the oldest
\* entries dropped until at most cap remain
AfterOneAdd(h, cap, x) ==
    LET a == h \o <<x>>
    IN  IF Len(a) > cap THEN SubSeq(a, Len(a) - cap + 1, Len(a)) ELSE a

\* C21: a generate that returns a Response with no error, called with
\* save_to_history true, adds exactly one Interaction to the History: the
\* prompt of the call alone (also when the History was sent along) with the
\* content, model and provider of that Response, as the newest entry; with
\* save_to_history false the History is left as it was.
C21_GenerateSavesOnce ==
    [][ (last'.op = "generate" /\ IsNone(Val(last'.ret).error)) =>
          LET response == Val(last'.ret)
              x == [prompt |-> last'.prompt, response |-> response.content,
                    model |-> response.model, provider |-> response.provider,
                    usage |-> response.usage]
          IN  /\ last'.save =>
                    /\ history' = AfterOneAdd(history, max_history, x)
                    /\ max_history >= 1 => history'[Len(history')] = x
              /\ ~last'.save => history' = history ]_vars

\* a saving generate that sent the History along: the new entry holds the
\* prompt only
C21_Witness ==
    /\ last.op = "generate" /\ last.save /\ last.use_history
    /\ IsNone(Val(last.ret).error)
    /\ last.calls[1].method = "chat"
    /\ Len(history) = 2
    /\ history[2].prompt = last.prompt /\ history[2].response = "r1"
    /\ history[1].prompt # last.prompt

\* the messages of a list that have role "user", by position
UserPositions(messages) ==
    { i \in 1..Len(messages) : messages[i].role = "user" }

\* the Interaction that pairs a prompt with a Response
Paired(prompt, response) ==
    [prompt |-> prompt, response |-> response.content,
     model |-> response.model, provider |-> response.provider,
     usage |-> response.usage]

\* C22: a chat with save_to_history true that returns an error-free
\* Response, on a message list holding at least one user message, adds
\* exactly one Interaction, whose prompt is the content of the last message
\* with role "user", whatever other messages come before or after it.
C22_ChatSavesLastUserMessage ==
    [][ ( /\ last'.op = "chat" /\ last'.save
          /\ IsNone(Val(last'.ret).error)
          /\ UserPositions(last'.calls[1].messages) # {} ) =>
          LET messages == last'.calls[1].messages
              i == CHOOSE k \in UserPositions(messages) :
                       \A j \in UserPositions(messages) : j <= k
          IN  history' = AfterOneAdd(history, max_history,
                                     Paired(messages[i].content, Val(last'.ret))) ]_vars

\* C23: multi_shot_generate with n_shots >= 1 on a History of at least
\* n_shots Interactions makes one chat call of 2*n_shots + 1 messages: the
\* last n_shots Interactions, oldest first, each as a user message followed
\* by an assistant message, and then the prompt as a user message.
C23_MultiShotMessageList ==
    [][ ( /\ last'.op = "multi_shot_generate"
          /\ Val(last'.n) >= 1 /\ Len(history) >= Val(last'.n) ) =>
          LET n == Val(last'.n)
              messages == last'.calls[1].messages
              base == Len(history) - n
          IN  /\ Len(last'.calls) = 1 /\ last'.calls[1].method = "chat"
              /\ Len(messages) = 2 * n + 1
              /\ \A k \in 1..n :
                    /\ messages[2 * k - 1] = Msg("user", history[base + k].prompt)
                    /\ messages[2 * k] = Msg("assistant", history[base + k].response)
              /\ messages[2 * n + 1] = Msg("user", last'.prompt) ]_vars

\* one shot out of a History of two: the call holds the newer Interaction
\* only (nothing was saved, so the History is the one the call was built on)
C23_Witness ==
    /\ last.op = "multi_shot_generate" /\ last.n = Some(1) /\ ~last.added
    /\ Len(history) = 2 /\ history[1].prompt # history[2].prompt
    /\ Len(last.calls[1].messages) = 3
    /\ last.calls[1].messages[1] = Msg("user", history[2].prompt)

\* C24: every Facade call a Client operation makes is given the persistent
\* default parameters overridden by the overrides of that operation's call
\* (the override wins where both have the key); only set_default_params
\* changes the persistent parameters, which therefore always equal the
\* left-to-right merge of the set_default_params calls made so far.
C24_OptionsAreDefaultsThenOverrides ==
    [][ /\ last'.calls # <<>> =>
              LET kw == Val(options').kwargs
                  passed == Val(options').params
              IN  /\ DOMAIN passed = DOMAIN default_params \cup DOMAIN kw
                  /\ \A k \in DOMAIN passed :
                        passed[k] = IF k \in DOMAIN kw THEN kw[k]
                                    ELSE default_params[k]
        /\ last'.op # "set_default_params" => default_params' = default_params
        /\ LET keys == UNION { DOMAIN set_log'[i] : i \in 1..Len(set_log') }
           IN  /\ DOMAIN default_params' = keys
               /\ \A k \in keys :
                     LET i == CHOOSE i \in 1..Len(set_log') :
                                  /\ k \in DOMAIN set_log'[i]
                                  /\ \A j \in (i + 1)..Len(set_log') :
                                        k \notin DOMAIN set_log'[j]
                     IN  default_params'[k] = set_log'[i][k] ]_vars

\* two set_default_params calls that collide on temperature, then a
\* generate whose override collides with it too: the Facade gets the
\* override, the persistent value is still the one set last
C24_Witness ==
    /\ last.op = "generate" /\ last.calls # <<>>
    /\ set_log = << [temperature |-> 3, max_tokens |-> 1], [temperature |-> 1] >>
    /\ default_params = [temperature |-> 1, max_tokens |-> 1]
    /\ Val(options).kwargs = [temperature |-> 2, top_p |-> 1]
    /\ Val(options).params = [temperature |-> 2, max_tokens |-> 1, top_p |-> 1]

\* C25: pulling a Client stream never raises to the consumer.  When the
\* Facade's stream raises (at its creation or at any pull), the consumer has
\* received every fragment the Facade produced, unchanged and in order,
\* receives one more fragment, which carries the error marker, and the
\* next pull ends the sequence.
C25_StreamFailureIsOneErrorFragment ==
    [][ /\ stream'.state # "raised"
        /\ (last'.op = "stream_pull" /\ stream'.state = "running") =>
              /\ stream'.forwarded = stream'.produced
              /\ stream'.produced # <<>>
              /\ last'.yielded = Some(stream'.produced[Len(stream'.produced)])
        /\ (last'.op = "stream_pull" /\ last'.facade_raised) =>
              /\ stream'.produced = stream.produced
              /\ \E m \in ExcMsgs :
                    /\ last'.yielded = Some("Error: " \o m)
                    /\ stream'.forwarded = stream.produced \o << "Error: " \o m >>
              /\ stream'.state = "errored"
        /\ (last'.op = "stream_pull" /\ stream.state = "errored") =>
              /\ last'.yielded = None
              /\ stream'.state = "done" ]_vars

\* the Facade's stream raised after one fragment: the consumer holds that
\* fragment and the error fragment
C25_Witness ==
    /\ stream.state = "errored" /\ last.op = "stream_pull" /\ last.facade_raised
    /\ stream.produced = << "a" >>
    /\ stream.forwarded = << "a", "Error: boom" >>
    /\ last.yielded = Some("Error: boom")

\* C26: the pull at which the Facade's stream is exhausted adds, when
\* save_to_history is true, exactly one Interaction: the stream's prompt
\* with the concatenation, in order, of every fragment the consumer
\* received, an in-band error fragment included; with save_to_history false
\* it adds nothing; and no earlier pull of the stream changes the History.
C26_StreamSavesAtExhaustion ==
    [][ last'.op = "stream_pull" =>
          IF stream.state \in {"created", "running"} /\ stream'.state = "done"
          THEN IF stream.save
               THEN history' =
                      AfterOneAdd(history, max_history,
                          Paired(stream.prompt,
                                 LLMResponse(Join(stream.forwarded),
                                             facade.model_name,
                                             facade.provider_name, None, None)))
               ELSE history' = history
          ELSE history' = history ]_vars

\* a saving stream that forwarded "a" and then the Facade's in-band error
\* fragment, pulled to exhaustion: both are in the recorded Interaction
C26_Witness ==
    /\ last.op = "stream_pull" /\ last.added /\ stream.state = "done"
    /\ history # <<>>
    /\ history[Len(history)].prompt = "p1"
    /\ history[Len(history)].response = "a" \o "Error: api down"

\* C27: closing (or dropping) a Client stream before it is exhausted
\* produces no fragment, error fragment included, and records nothing;
\* pulling the closed stream afterwards does nothing either, so no
\* Interaction is ever recorded for it.
C27_AbandonedStreamRecordsNothing ==
    [][ /\ last'.op = "stream_close" =>
              /\ history' = history
              /\ last'.yielded = None /\ ~last'.added
              /\ stream'.state = "closed"
        /\ (stream.state = "closed"
              /\ last'.op \in {"stream_pull", "stream_pull_finished"}) =>
              /\ history' = history
              /\ last'.yielded = None /\ ~last'.added
              /\ stream'.state = "closed" ]_vars

\* a saving stream closed after the consumer received one fragment, on a
\* Client that recorded nothing
C27_Witness ==
    /\ last.op = "stream_close" /\ stream.state = "closed"
    /\ stream.save /\ stream.forwarded = << "a" >>
    /\ max_history = 1 /\ history = <<>>

\* the catalog keys of a Provider, as a set
CatalogKeys(provider) ==
    { get_available_models(provider)[i] :
        i \in 1..Len(get_available_models(provider)) }

\* C28: for every Provider class, create_facade(model, overrides) returns
\* a Facade, bound to the provider's name and to the model, exactly when
\* supports_model(model) holds, which is exactly when the model is a key
\* of the catalog; otherwise it raises the model-not-available error, which
\* lists the catalog's ids, and there is no Facade.
C28_FacadeIffCatalogKey ==
    /\ facade_call.op = "supports_model" =>
          (facade_call.supported <=>
              facade_call.model \in CatalogKeys(Val(provider_obj)))
    /\ facade_call.op = "create_facade" =>
          /\ ~facade_call.raised <=> facade_call.supported
          /\ facade_call.supported <=>
                facade_call.model \in CatalogKeys(Val(provider_obj))
          /\ ~facade_call.raised =>
                /\ ~IsNone(facade_call.facade)
                /\ Val(facade_call.facade).model_name = facade_call.model
                /\ Val(facade_call.facade).provider_name =
                      Val(provider_obj).provider_name
          /\ facade_call.raised =>
                /\ IsNone(facade_call.facade)
                /\ facade_call.error.kind = "model_not_available"
                /\ facade_call.error.available_models =
                      get_available_models(Val(provider_obj))

\* a Bedrock provider asked for a model of the Together catalog
C28_Witness ==
    /\ facade_call.op = "create_facade" /\ facade_call.raised
    /\ Val(provider_obj).cls = "BedrockProvider"
    /\ facade_call.model = "mistralai/Mixtral-8x7B-Instruct-v0.1"
    /\ Len(facade_call.error.available_models) = 10

\* C29: the configuration of the Facade create_facade returns holds, for
\* every key of the caller's overrides, the caller's value, for every
\* Provider class and every provider configuration.
C29_OverridesWinInFacadeConfig ==
    (facade_call.op = "create_facade" /\ ~facade_call.raised) =>
        \A k \in DOMAIN facade_call.kwargs :
            /\ k \in DOMAIN Val(facade_call.facade).config
            /\ Val(facade_call.facade).config[k] = facade_call.kwargs[k]

\* C30: after load_config on an absent file, or on a file without the
\* `defaults` key, the client factory's default provider is "mock" and its
\* default model "mock-model"; after load_config on an absent file, or on a
\* file without the `fallback_to_mock` key, the fallback is disabled.
C30_AbsentConfigGivesMockDefaults ==
    result.op = "load_config" =>
        /\ (result.raised \/ "defaults" \notin DOMAIN Val(config)) =>
              /\ default_provider = Some(MockName)
              /\ default_model = Some("mock-model")
        /\ (result.raised \/ "fallback_to_mock" \notin DOMAIN Val(config)) =>
              ~FallbackEnabled

\* C31: get_provider(name, use_cache=True) called from two threads for a
\* registered name with no cache entry constructs one Provider in all, and
\* every call returns that instance.
C31_OneProviderUnderConcurrency ==
    /\ made <= 1
    /\ \A t, u \in Threads :
          (threads[t].pc = "done" /\ threads[u].pc = "done"
             /\ ~IsNone(threads[t].ret) /\ ~IsNone(threads[u].ret)) =>
                Val(threads[t].ret).id = Val(threads[u].ret).id

\* C32: with fallback enabled, a create_client call whose requested provider
\* name is "mock" in any letter case and whose attempt fails propagates that
\* failure after the single attempt: there is no retry against mock /
\* mock-model.
C32_NoFallbackForMockInAnyCase ==
    (/\ result.op = "create_client" /\ FallbackEnabled
     /\ ~IsNone(RequestedProvider) /\ ~IsNone(RequestedModel)
     /\ Lower(Val(RequestedProvider)) = MockName
     /\ result.first.kind # "none") =>
        /\ Len(result.attempts) = 1
        /\ result.raised /\ IsNone(result.client)
        /\ result.error = result.first

\* the operations of a Client that reach its Facade
ClientOps ==
    {"generate", "chat", "multi_shot_generate", "generate_stream", "stream_pull",
     "stream_close"}

\* C33: no generate / chat / generate_stream / multi_shot_generate call on a
\* Client - whether its Facade answers, reports an error or raises - changes
\* the Facade the Client holds, constructs a Provider or changes the provider
\* cache, and the response it returns carries the provider id and model id of
\* that Facade; this also with fallback enabled.
C33_ClientKeepsItsBinding ==
    [][ (/\ last'.op \in ClientOps
         /\ <<last, history, stream>>' # <<last, history, stream>>) =>
          /\ facade' = facade
          /\ made' = made
          /\ provider_instances' = provider_instances
          /\ provider_registry' = provider_registry
          /\ ~IsNone(last'.ret) =>
                /\ Val(last'.ret).model = facade.model_name
                /\ Val(last'.ret).provider = facade.provider_name ]_vars

\* with fallback enabled, the Facade of a Client bound to grok / grok-beta
\* raised during generate; the Client still holds that Facade and both
\* Providers made so far are still the cached ones
C33_Witness ==
    /\ result.op = "create_client" /\ ~result.raised /\ FallbackEnabled
    /\ facade = Val(result.client).facade
    /\ facade.model_name = "grok-beta"
    /\ last.op = "generate" /\ last.facade_raised
    /\ Val(last.ret).provider = GrokName
    /\ made = 2 /\ DOMAIN provider_instances = {GrokName, MockName}

\* the "Error: ..." fragments among the fragments of a stream
Markers(got) ==
    { i \in 1..Len(got) : \E msg \in ExcMsgs : got[i] = ErrorMarker(msg) }

\* C34: for every Facade variant and both of generate_stream and chat_stream,
\* when the underlying call fails nothing is raised to the consumer and the
\* fragments it received end with an error marker, the only one among them.
C34_FacadeStreamFailureIsOneMarker ==
    (fstream.state \in {"marked", "done", "raised"} /\ ~IsNone(fstream.failure)) =>
        /\ ~fstream.raised
        /\ Markers(fstream.got) = {Len(fstream.got)}
        /\ fstream.got # <<>>

\* C35: while the cache holds an instance for a name, get_provider(name,
\* api_key, config, use_cache=True) returns that instance whatever api_key and
\* config it is given, and create_client(name, model, api_key) obtains that
\* instance too: no Provider is constructed and the cached instance keeps the
\* api_key and configuration it was constructed with.  Once clear_cache has
\* evicted the entry, the next get_provider constructs from its own arguments.
C35_CachedProviderWins ==
    [][ /\ (/\ result'.op = "get_provider" /\ result'.use_cache
            /\ Lower(result'.name) \in DOMAIN provider_instances) =>
              /\ result'.provider = Some(provider_instances[Lower(result'.name)])
              /\ provider_instances' = provider_instances
              /\ made' = made
        /\ (/\ result'.op = "create_client"
            /\ Lower(Val(result'.provider_arg)) \in DOMAIN provider_instances) =>
              /\ provider_instances' = provider_instances
              /\ made' = made
              /\ ~result'.raised =>
                    Val(result'.client).facade.provider_name
                      = provider_instances[Lower(Val(result'.provider_arg))].provider_name
        /\ (/\ result'.op = "get_provider" /\ result'.use_cache /\ ~result'.raised
            /\ Lower(result'.name) \notin DOMAIN provider_instances) =>
              /\ made' = made + 1
              /\ Val(result'.provider).api_key
                   = ResolveApiKey(result'.name, result'.api_key)
              /\ Val(result'.provider).config
                   = (IF IsNone(result'.cfg) THEN EmptyDict ELSE Val(result'.cfg))
              /\ provider_instances'[Lower(result'.name)] = Val(result'.provider) ]_vars

\* get_provider("mock", api_key="k1", config={region: us}) returned the
\* instance cached earlier, which holds the key of the environment and an
\* empty configuration
C35_Witness ==
    /\ result.op = "get_provider" /\ result.use_cache /\ ~result.raised
    /\ result.name = MockName
    /\ result.api_key = Some("k1") /\ result.cfg = Some([region |-> "us"])
    /\ Val(result.provider).api_key # Some("k1")
    /\ Val(result.provider).config = EmptyDict
    /\ result.again

C37_RaisingStreamRecordsNothing ==
    [][ /\ (last'.op = "stream_pull" /\ last'.facade_raised) =>
              /\ history' = history
              /\ ~last'.added
              /\ stream'.state = "errored"
              /\ \E m \in ExcMsgs : last'.yielded = Some("Error: " \o m)
        /\ (last'.op = "stream_pull" /\ stream.state = "errored") =>
              /\ history' = history
              /\ ~last'.added
              /\ last'.yielded = None
              /\ stream'.state = "done" ]_vars

\* a saving stream forwarded "a", then the Facade's stream raised: the
\* consumer got the error fragment and the History is still empty
C37_Witness ==
    /\ stream.state = "errored"
    /\ last.op = "stream_pull" /\ last.facade_raised /\ last.save
    /\ stream.produced = << "a" >>
    /\ last.yielded = Some("Error: ")
    /\ history = <<>> /\ max_history = 1

\* C38: a create_client call whose first attempt fails after the Provider was
\* obtained - at model validation, at Facade construction or at Client
\* construction - leaves an instance for the requested name in the cache: the
\* one cached before the call if there was one, a newly constructed one
\* otherwise; and every create_client for a name with a cached instance
\* leaves that instance in place.
C38_ProviderCachedBeforeValidation ==
    [][ (result'.op = "create_client" /\ result'.attempts # <<>>) =>
          LET provider_key == Lower(result'.attempts[1].provider)
          IN  /\ result'.first.kind \in {"model_not_supported", "model_not_available",
                                         "maxlen_negative"} =>
                    /\ provider_key \in DOMAIN provider_instances'
                    /\ provider_key \notin DOMAIN provider_instances =>
                          /\ provider_instances'[provider_key].id = made + 1
                          /\ made' >= made + 1
              /\ provider_key \in DOMAIN provider_instances =>
                    provider_instances'[provider_key] = provider_instances[provider_key] ]_vars

\* create_client("grok", "does-not-exist") failed at model validation with
\* nothing cached before and no fallback: the call raised, and the
\* GrokProvider it constructed is in the cache
C38_Witness ==
    /\ result.op = "create_client" /\ result.raised
    /\ result.error.kind = "model_not_supported"
    /\ result.provider_arg = Some(GrokName)
    /\ made = 1
    /\ DOMAIN provider_instances = {GrokName}
    /\ provider_instances[GrokName].cls = "GrokProvider"

\* C39: a chat or multi_shot_generate call adds one Interaction - the content
\* of the last message with role "user", paired with the response - when
\* save_to_history is true, the Facade answered without error, and the
\* message list has a user message whose last one has non-empty content; in
\* every other case (the list empty, no user message in it, the last user
\* message empty, save_to_history false, the Facade failing) the History is
\* left as it was.
C39_ChatSavesOnlyNonEmptyUserMessage ==
    [][ last'.op \in {"chat", "multi_shot_generate"} =>
          LET messages == last'.calls[1].messages
              ups == UserPositions(messages)
              i == CHOOSE k \in ups : \A j \in ups : j <= k
          IN  IF /\ last'.save /\ ~last'.facade_raised
                 /\ IsNone(Val(last'.ret).error)
                 /\ ups # {} /\ messages[i].content # ""
              THEN /\ last'.added
                   /\ history' = AfterOneAdd(history, max_history,
                                     Paired(messages[i].content, Val(last'.ret)))
              ELSE /\ ~last'.added
                   /\ history' = history ]_vars

\* a saving chat whose Facade answered: the last user message is empty, an
\* earlier one is not, and nothing was recorded
C39_Witness ==
    /\ last.op = "chat" /\ last.save /\ ~last.facade_raised
    /\ IsNone(Val(last.ret).error)
    /\ last.calls[1].messages = << Msg("user", "p2"), Msg("user", "") >>
    /\ ~last.added /\ history = <<>> /\ max_history = 2

\* C40: register_provider changes neither the cache nor the number of
\* Providers made; while an instance is cached for a name, get_provider(name,
\* use_cache=True) returns it whatever class is registered for the name by
\* then; a get_provider that finds no cached instance - as after
\* clear_cache(name) - constructs an instance of the class registered at
\* that time.
C40_ReRegistrationKeepsCachedInstance ==
    [][ /\ result'.op = "register_provider" =>
              /\ provider_instances' = provider_instances
              /\ made' = made
        /\ (result'.op = "get_provider" /\ result'.use_cache /\ ~result'.raised) =>
              LET provider_key == Lower(result'.name)
              IN  IF provider_key \in DOMAIN provider_instances
                  THEN /\ Val(result'.provider) = provider_instances[provider_key]
                       /\ made' = made
                  ELSE /\ Val(result'.provider).cls
                            = RegGet(provider_registry, provider_key)
                       /\ Val(result'.provider).id = made + 1
        /\ (result'.op = "clear_cache" /\ TruthyStr(result'.provider_arg)) =>
              Lower(Val(result'.provider_arg)) \notin DOMAIN provider_instances' ]_vars

\* "mock" was re-registered with GrokProvider after a MockProvider had been
\* cached for it, and get_provider("mock") returned that MockProvider
C40_Witness ==
    /\ result.op = "get_provider" /\ result.use_cache /\ ~result.raised
    /\ result.name = MockName
    /\ RegGet(provider_registry, MockName) = "GrokProvider"
    /\ Val(result.provider).cls = "MockProvider"
    /\ provider_instances[MockName] = Val(result.provider)

====
